---- MODULE Spec2Model ----
(***************************************************************************)
(* State-machine model of the renderer subsystem of OpenGL_Framework:      *)
(* the Shader wrapper (Component/shader.cpp), the two current renderers    *)
(* (Component/renderers/triangle_render.cpp, cube_render.cpp) and the      *)
(* earlier draft of TriangleRender (Component/triangle_render.cpp), driven *)
(* through the IRenderer operations initialize / render / resize /         *)
(* cleanup / setErrorCallback against a model of the GL object store, and   *)
(* the host-side pieces around them: RenderFactory, the config builders    *)
(* and RenderContext; Shader objects held on their own; the JNI session    *)
(* of native_renderer.cpp over a model of EGL; and main with its threads.  *)
(*                                                                         *)
(* Numbers: angles and speeds are whole degrees (the floats of the code    *)
(* hold them exactly), colours are tuples of tenths.                       *)
(***************************************************************************)
EXTENDS Integers, Sequences, FiniteSets, TLC

VARIABLES
    variant,          \* which renderer class the object is
    m_shader,         \* Shader member: [programId, cache, lastError]
    m_vao,            \* GLuint m_vao
    m_vbo,            \* GLuint m_vbo
    m_projection,     \* glm::mat4 m_projection
    m_clearColor,     \* glm::vec4 m_clearColor
    m_rotationSpeed,  \* float m_rotationSpeed
    m_currentAngle,   \* float m_currentAngle
    m_vertexCount,    \* int m_vertexCount
    m_initialized,    \* bool m_initialized
    m_errorCallback,  \* ErrorCallback m_errorCallback ("none" = empty std::function)
    gl,               \* the driver's object store and the GL calls of the last operation
    last,             \* the last operation: its name, return value (<<>> if void), error reports
    frameCount,       \* history: number of render calls that returned true
    steady,           \* history: Ready since an initialize that started at angle 0, no initialize/cleanup since
    build,            \* the renderers compiled in (#ifdef USE_TRIANGLE_RENDER / USE_CUBE_RENDER)
    USE_CUBE_RENDER,  \* the value of the macro in an #if expression (0 when undefined)
    made,             \* the last RenderFactory::create call and what it returned
    other,            \* a renderer a second owner holds besides the one in m_renderer
    cfg,              \* the config object the host holds
    cfgRet,           \* the last builder call on cfg and the object it returned
    initConfig,       \* history: the config as it was at the last initialize that returned true
    ctx,              \* the RenderContext the host holds
    ctxRet,           \* the last with... call on ctx and the context it returned
    shaderObjs,       \* the Shader objects the host holds on their own
    jni,              \* native_renderer.cpp: the g_ globals, the last JNI call and the calls it made
    egl,              \* the EGL implementation's objects and the references on the native window
    proc              \* main.cpp: where main is, and its threads

\* What lives outside the renderer object and the driver
sideVars == << USE_CUBE_RENDER, shaderObjs, jni, egl, proc >>

hostVars == << build, made, other, cfg, cfgRet, initConfig, ctx, ctxRet, sideVars >>

vars == << variant, m_shader, m_vao, m_vbo, m_projection, m_clearColor,
           m_rotationSpeed, m_currentAngle, m_vertexCount, m_initialized,
           m_errorCallback, gl, last, frameCount, steady,
           build, USE_CUBE_RENDER, made, other, cfg, cfgRet, initConfig, ctx, ctxRet,
           shaderObjs, jni, egl, proc >>

rendererVars == << variant, m_shader, m_vao, m_vbo, m_projection, m_clearColor,
                   m_rotationSpeed, m_currentAngle, m_vertexCount, m_initialized,
                   m_errorCallback >>

(***************************************************************************)
(* Bounds of the model.                                                    *)
(***************************************************************************)
\* initialize is not taken once this many GL objects of one kind are live
MaxLive == 2
\* render is not taken on a Ready renderer after this many successful frames
MaxRenders == 2
MaxLiveShared == 5
\* EGL surfaces (and contexts) live at once in the JNI session
MaxEglLive == 2
\* Frames drawn in one JNI session
MaxJniFrames == 2

(***************************************************************************)
(* Inputs.                                                                 *)
(***************************************************************************)
\* The renderer classes: the two current ones and the draft of TriangleRender
CurrentVariants == {"TriangleRender", "CubeRender"}
DraftVariants == {"TriangleRenderDraft"}

\* Shader texts: "vs_ok", "vs_syntax_error", "fs_ok", "fs_syntax_error",
\* "fs_unlinkable" (compiles, does not link), and "" for what
\* loadShaderSource yields for a missing file.

\* The driver's verdicts on a shader text (GL_COMPILE_STATUS / GL_LINK_STATUS).
CompileOk(source) == source \in {"vs_ok", "fs_ok", "fs_unlinkable"}
LinkOk(vsSource, fsSource) == fsSource # "fs_unlinkable"
\* The driver's diagnostic texts (glGetShaderInfoLog / glGetProgramInfoLog).
ShaderInfoLog(source) == "0:1: syntax error in " \o source
ProgramInfoLog(vsSource, fsSource) == "link error: " \o vsSource \o " + " \o fsSource

\* Error kinds (enum class RenderError) and messages.  A message is the
\* sequence of the pieces the code concatenates.
ErrorKinds == {"InitializationFailed", "ShaderCompilationFailed", "BufferCreationFailed"}

DarkBlue == <<0, 0, 5, 10>>
DarkGray == <<1, 1, 1, 10>>
Widths == {800}
Heights == {0, 600}

ConfigTypes == {"TriangleConfig", "CubeConfig"}

\* The shader pairs offered: a good pair, and one failing at each step.
ShaderPairs ==
    { [ vs |-> "vs_ok", fs |-> "fs_ok" ],
      [ vs |-> "vs_syntax_error", fs |-> "fs_ok" ],
      [ vs |-> "vs_ok", fs |-> "fs_syntax_error" ],
      [ vs |-> "vs_ok", fs |-> "fs_unlinkable" ] }

\* The draft loads its texts from two paths, either of which may be missing.
DraftShaderPairs ==
    ShaderPairs \cup { [ vs |-> "", fs |-> "fs_ok" ], [ vs |-> "vs_ok", fs |-> "" ] }

\* Geometry and parameters offered: a triangle, a quad of two triangles and
\* empty vertex data.  The speeds are chosen so that the angle reaches 360
\* within MaxRenders frames.
Parameters ==
    { [ nverts |-> 3, clearColor |-> DarkBlue, rotationSpeed |-> 180 ],
      [ nverts |-> 6, clearColor |-> DarkGray, rotationSpeed |-> 360 ],
      [ nverts |-> 0, clearColor |-> DarkGray, rotationSpeed |-> 180 ] }

MakeConfig(type, shaders, params) ==
    [ type |-> type, vs |-> shaders.vs, fs |-> shaders.fs, nverts |-> params.nverts,
      clearColor |-> params.clearColor, rotationSpeed |-> params.rotationSpeed ]

\* The pairings offered: every geometry with the good shader pair, and the
\* triangle with each failing pair.
Pairings(pairs) ==
    { x \in pairs \X Parameters :
          (x[1].vs = "vs_ok" /\ x[1].fs = "fs_ok") \/ x[2].nverts = 3 }

\* An IRenderConfig as the renderer reads it.
Configs ==
    { MakeConfig(t, x[1], x[2]) : t \in ConfigTypes, x \in Pairings(ShaderPairs) }

\* The RenderConfig of the draft: vs/fs are the texts found at its two paths.
DraftConfigs ==
    { MakeConfig("RenderConfig", x[1], x[2]) : x \in Pairings(DraftShaderPairs) }

Identity == [ kind |-> "identity" ]

\* float(width) / float(height) in IEEE arithmetic
Aspect(width, height) ==
    IF height # 0 THEN [ tag |-> "finite", num |-> width, den |-> height ]
    ELSE IF width > 0 THEN [ tag |-> "+inf", num |-> width, den |-> height ]
    ELSE IF width < 0 THEN [ tag |-> "-inf", num |-> width, den |-> height ]
    ELSE [ tag |-> "nan", num |-> width, den |-> height ]

\* glm::perspective(glm::radians(30.0f), aspect, 3.0f, 10.0f)
Perspective(aspect) ==
    [ kind |-> "perspective", fovy |-> 30, aspect |-> aspect, near |-> 3, far |-> 10 ]

(***************************************************************************)
(* RenderContext (Component/render_context.hpp).  A uint64_t is the tuple  *)
(* of its four 16-bit limbs, most significant first.  A method is an       *)
(* operator from the receiver to the receiver afterwards (self) and the    *)
(* object returned (ret).                                                  *)
(***************************************************************************)
LimbBase == 65536

Zero64 == <<0, 0, 0, 0>>
Max64 == <<LimbBase - 1, LimbBase - 1, LimbBase - 1, LimbBase - 1>>

\* n + 1 in uint64_t arithmetic (m_frameNumber++ in the hosts)
Inc64(n) ==
    IF n[4] < LimbBase - 1 THEN <<n[1], n[2], n[3], n[4] + 1>>
    ELSE IF n[3] < LimbBase - 1 THEN <<n[1], n[2], n[3] + 1, 0>>
    ELSE IF n[2] < LimbBase - 1 THEN <<n[1], n[2] + 1, 0, 0>>
    ELSE IF n[1] < LimbBase - 1 THEN <<n[1] + 1, 0, 0, 0>>
    ELSE Zero64

ViewportSize(w, h) == [ width |-> w, height |-> h ]

\* RenderContext(viewportSize, projectionMatrix, deltaTime)
RenderContext(viewportSize, projectionMatrix, deltaTime) ==
    [ width |-> viewportSize.width, height |-> viewportSize.height,
      projection |-> projectionMatrix, deltaTime |-> deltaTime,
      frameNumber |-> Zero64 ]

\* A withFrameNumber that sets the field in place and returns *this
RenderContext_withFrameNumber_InPlace(self, frame) ==
    [ self |-> [ self EXCEPT !.frameNumber = frame ],
      ret |-> [ self EXCEPT !.frameNumber = frame ] ]

RenderContext_withFrameNumber(self, frame) ==
    [ self |-> self, ret |-> [ self EXCEPT !.frameNumber = frame ] ]

RenderContext_withDeltaTime(self, dt) ==
    [ self |-> self, ret |-> [ self EXCEPT !.deltaTime = dt ] ]

Viewports == { ViewportSize(800, 600), ViewportSize(0, -1) }
Projections == { Identity, Perspective(Aspect(800, 600)) }
DeltaTimes == {0, 16}
FrameNumbers ==
    { Zero64, <<0, 0, 0, 1>>, <<0, 0, 0, LimbBase - 1>>, <<0, 0, 1, 0>>,
      <<0, LimbBase - 1, LimbBase - 1, LimbBase - 1>>, Max64 }

\* The contexts handed to render: every viewport, projection and delta
\* time, with the first or the last frame number
Contexts ==
    { RenderContext_withFrameNumber(RenderContext(vp, p, dt),
                                    IF dt = 0 THEN Zero64 ELSE Max64).ret :
          vp \in Viewports, p \in Projections, dt \in DeltaTimes }

Callbacks == {"cb1"}

(***************************************************************************)
(* The GL object store.  gl.calls is the list of GL calls made by the      *)
(* operation in progress.  Object names are the smallest unused name of    *)
(* their namespace; shaders and programs share one namespace.              *)
(***************************************************************************)
Min(S) == CHOOSE n \in S : \A m \in S : n <= m

FreshName(used) == Min((1..(Cardinality(used) + 1)) \ used)

ShaderNames(g) == { s.id : s \in g.shaders }

GlBegin(g) == [ g EXCEPT !.calls = <<>> ]

GlCall(g, call) == [ g EXCEPT !.calls = Append(@, call) ]

GlCreateShader(g, type, id) ==
    GlCall([ g EXCEPT !.shaders = @ \cup {[ id |-> id, type |-> type, source |-> "" ]} ],
           <<"glCreateShader", type, id>>)

GlShaderSource(g, id, source) ==
    GlCall([ g EXCEPT !.shaders =
                { IF s.id = id THEN [ s EXCEPT !.source = source ] ELSE s : s \in @ } ],
           <<"glShaderSource", id, source>>)

GlDeleteShader(g, id) ==
    GlCall([ g EXCEPT !.shaders = { s \in @ : s.id # id } ], <<"glDeleteShader", id>>)

GlCreateProgram(g, id) ==
    GlCall([ g EXCEPT !.programs = @ \cup {id} ], <<"glCreateProgram", id>>)

GlDeleteProgram(g, id) ==
    GlCall([ g EXCEPT !.programs = @ \ {id} ], <<"glDeleteProgram", id>>)

GlGenVertexArrays(g, id) ==
    GlCall([ g EXCEPT !.vaos = @ \cup {id} ], <<"glGenVertexArrays", id>>)

GlDeleteVertexArrays(g, id) ==
    GlCall([ g EXCEPT !.vaos = @ \ {id} ], <<"glDeleteVertexArrays", id>>)

GlGenBuffers(g, id) ==
    GlCall([ g EXCEPT !.buffers = @ \cup {id} ], <<"glGenBuffers", id>>)

GlDeleteBuffers(g, id) ==
    GlCall([ g EXCEPT !.buffers = @ \ {id} ], <<"glDeleteBuffers", id>>)

\* The text attached to shader object id
SourceOf(g, id) == (CHOOSE s \in g.shaders : s.id = id).source

\* glGetUniformLocation: the built-in shaders declare one uniform, mvp
GlGetUniformLocation(g, program, name) ==
    IF program \in g.programs /\ name = "mvp" THEN 0 ELSE -1

(***************************************************************************)
(* Shader (Component/shader.cpp).  Each method is an operator from the     *)
(* Shader object sh and the store g to the new object, store and result.   *)
(***************************************************************************)
NewShader == [ programId |-> 0, cache |-> {}, lastError |-> <<>> ]

\* A release() that deletes the program and keeps its id
Shader_release_KeepsId(sh, g) ==
    [ sh |-> [ sh EXCEPT !.cache = {} ],
      gl |-> IF sh.programId # 0 THEN GlDeleteProgram(g, sh.programId) ELSE g ]

Shader_release(sh, g) ==
    [ sh |-> [ sh EXCEPT !.programId = 0, !.cache = {} ],
      gl |-> IF sh.programId # 0 THEN GlDeleteProgram(g, sh.programId) ELSE g ]

TypeStr(type) == IF type = "GL_VERTEX_SHADER" THEN "VERTEX" ELSE "FRAGMENT"

Shader_compileShader(sh, g, type, source) ==
    LET id == FreshName(g.programs \cup ShaderNames(g))
        g1 == GlCreateShader(g, type, id)
        g2 == GlShaderSource(g1, id, source)
        g3 == GlCall(g2, <<"glCompileShader", id>>)
    IN  IF ~CompileOk(source)
        THEN [ sh  |-> [ sh EXCEPT !.lastError =
                            << TypeStr(type), " shader compilation failed: ",
                               ShaderInfoLog(source) >> ],
               gl  |-> GlDeleteShader(g3, id),
               ret |-> 0 ]
        ELSE [ sh |-> sh, gl |-> g3, ret |-> id ]

Shader_linkProgram(sh, g, vertexShader, fragmentShader) ==
    LET id == FreshName(g.programs \cup ShaderNames(g))
        g1 == GlCreateProgram(g, id)
        g2 == GlCall(g1, <<"glAttachShader", id, vertexShader>>)
        g3 == GlCall(g2, <<"glAttachShader", id, fragmentShader>>)
        g4 == GlCall(g3, <<"glLinkProgram", id>>)
        vsSource == SourceOf(g, vertexShader)
        fsSource == SourceOf(g, fragmentShader)
    IN  IF ~LinkOk(vsSource, fsSource)
        THEN [ sh  |-> [ sh EXCEPT !.programId = 0,
                                   !.lastError = << "Shader program linking failed: ",
                                                    ProgramInfoLog(vsSource, fsSource) >> ],
               gl  |-> GlDeleteProgram(g4, id),
               ret |-> FALSE ]
        ELSE [ sh |-> [ sh EXCEPT !.programId = id ], gl |-> g4, ret |-> TRUE ]

Shader_loadFromSource(sh, g, vertexSource, fragmentSource) ==
    LET rel == Shader_release(sh, g)
        vs  == Shader_compileShader(rel.sh, rel.gl, "GL_VERTEX_SHADER", vertexSource)
        fs  == Shader_compileShader(vs.sh, vs.gl, "GL_FRAGMENT_SHADER", fragmentSource)
        lk  == Shader_linkProgram(fs.sh, fs.gl, vs.ret, fs.ret)
    IN  IF vs.ret = 0
        THEN [ sh |-> vs.sh, gl |-> vs.gl, ret |-> FALSE ]
        ELSE IF fs.ret = 0
        THEN [ sh |-> fs.sh, gl |-> GlDeleteShader(fs.gl, vs.ret), ret |-> FALSE ]
        ELSE [ sh  |-> lk.sh,
               gl  |-> GlDeleteShader(GlDeleteShader(lk.gl, vs.ret), fs.ret),
               ret |-> lk.ret ]

Shader_use(sh, g) ==
    IF sh.programId # 0 THEN GlCall(g, <<"glUseProgram", sh.programId>>) ELSE g

Shader_unuse(sh, g) == GlCall(g, <<"glUseProgram", 0>>)

\* A getUniformLocation that asks the driver every time
Shader_getUniformLocation_Uncached(sh, g, name) ==
    LET location == GlGetUniformLocation(g, sh.programId, name)
    IN  [ sh  |-> [ sh EXCEPT !.cache = @ \cup {[ name |-> name, location |-> location ]} ],
          gl  |-> GlCall(g, <<"glGetUniformLocation", sh.programId, name>>),
          ret |-> location ]

Shader_getUniformLocation(sh, g, name) ==
    IF \E e \in sh.cache : e.name = name
    THEN [ sh |-> sh, gl |-> g, ret |-> (CHOOSE e \in sh.cache : e.name = name).location ]
    ELSE LET location == GlGetUniformLocation(g, sh.programId, name)
         IN  [ sh  |-> [ sh EXCEPT !.cache = @ \cup {[ name |-> name, location |-> location ]} ],
               gl  |-> GlCall(g, <<"glGetUniformLocation", sh.programId, name>>),
               ret |-> location ]

\* The uniform setters: each looks the location up and hands it with the
\* value to its glUniform* function
Shader_setBool(sh, g, name, value) ==
    LET loc == Shader_getUniformLocation(sh, g, name)
    IN  [ sh |-> loc.sh,
          gl |-> GlCall(loc.gl, <<"glUniform1i", loc.ret, IF value THEN 1 ELSE 0>>) ]

Shader_setInt(sh, g, name, value) ==
    LET loc == Shader_getUniformLocation(sh, g, name)
    IN  [ sh |-> loc.sh, gl |-> GlCall(loc.gl, <<"glUniform1i", loc.ret, value>>) ]

Shader_setFloat(sh, g, name, value) ==
    LET loc == Shader_getUniformLocation(sh, g, name)
    IN  [ sh |-> loc.sh, gl |-> GlCall(loc.gl, <<"glUniform1f", loc.ret, value>>) ]

\* setVec2(name, const glm::vec2&)
Shader_setVec2(sh, g, name, value) ==
    LET loc == Shader_getUniformLocation(sh, g, name)
    IN  [ sh |-> loc.sh, gl |-> GlCall(loc.gl, <<"glUniform2fv", loc.ret, value>>) ]

\* setVec2(name, float x, float y)
Shader_setVec2xy(sh, g, name, x, y) ==
    LET loc == Shader_getUniformLocation(sh, g, name)
    IN  [ sh |-> loc.sh, gl |-> GlCall(loc.gl, <<"glUniform2f", loc.ret, x, y>>) ]

\* setVec3(name, const glm::vec3&)
Shader_setVec3(sh, g, name, value) ==
    LET loc == Shader_getUniformLocation(sh, g, name)
    IN  [ sh |-> loc.sh, gl |-> GlCall(loc.gl, <<"glUniform3fv", loc.ret, value>>) ]

\* setVec3(name, float x, float y, float z)
Shader_setVec3xyz(sh, g, name, x, y, z) ==
    LET loc == Shader_getUniformLocation(sh, g, name)
    IN  [ sh |-> loc.sh, gl |-> GlCall(loc.gl, <<"glUniform3f", loc.ret, x, y, z>>) ]

\* setVec4(name, const glm::vec4&)
Shader_setVec4(sh, g, name, value) ==
    LET loc == Shader_getUniformLocation(sh, g, name)
    IN  [ sh |-> loc.sh, gl |-> GlCall(loc.gl, <<"glUniform4fv", loc.ret, value>>) ]

\* setVec4(name, float x, float y, float z, float w)
Shader_setVec4xyzw(sh, g, name, x, y, z, w) ==
    LET loc == Shader_getUniformLocation(sh, g, name)
    IN  [ sh |-> loc.sh, gl |-> GlCall(loc.gl, <<"glUniform4f", loc.ret, x, y, z, w>>) ]

Shader_setMat2(sh, g, name, mat) ==
    LET loc == Shader_getUniformLocation(sh, g, name)
    IN  [ sh |-> loc.sh, gl |-> GlCall(loc.gl, <<"glUniformMatrix2fv", loc.ret, mat>>) ]

Shader_setMat3(sh, g, name, mat) ==
    LET loc == Shader_getUniformLocation(sh, g, name)
    IN  [ sh |-> loc.sh, gl |-> GlCall(loc.gl, <<"glUniformMatrix3fv", loc.ret, mat>>) ]

Shader_setMat4(sh, g, name, mat) ==
    LET loc == Shader_getUniformLocation(sh, g, name)
    IN  [ sh |-> loc.sh, gl |-> GlCall(loc.gl, <<"glUniformMatrix4fv", loc.ret, mat>>) ]

(***************************************************************************)
(* Pieces shared by the renderers' methods.                                *)
(***************************************************************************)
\* A reportError that logs the error and forgets to call the callback
Delivered_Never(error, message) == <<>>

\* What reportError(error, message) hands to the callback, if one is set
Delivered(error, message) ==
    IF m_errorCallback # "none"
    THEN << [ cb |-> m_errorCallback, kind |-> error, message |-> message ] >>
    ELSE <<>>

Reported(error, message) == << [ kind |-> error, message |-> message ] >>

NoReport(op, ret) ==
    last' = [ op |-> op, ret |-> ret, reported |-> <<>>, delivered |-> <<>> ]

\* The model-view-projection matrix of a frame: projection * translate * rotate(angle)
Mvp(projection, angle) == [ projection |-> projection, angle |-> angle ]

\* m_currentAngle += m_rotationSpeed; if (m_currentAngle > 360.0f) m_currentAngle -= 360.0f;
NextAngle(angle, speed) ==
    IF angle + speed > 360 THEN angle + speed - 360 ELSE angle + speed

\* The bound on live GL objects of a kind: MaxLive for one renderer,
\* MaxLiveShared when two renderers share the store
LiveLimit == IF other.present THEN MaxLiveShared ELSE MaxLive

\* The bound on live GL objects under which initialize is explored
WithinBounds ==
    /\ Cardinality(gl.vaos) < LiveLimit
    /\ Cardinality(gl.buffers) < LiveLimit
    /\ Cardinality(gl.programs) + Cardinality(gl.shaders) < LiveLimit

Failed(op, error, message) ==
    last' = [ op |-> op, ret |-> <<FALSE>>,
              reported |-> Reported(error, message),
              delivered |-> Delivered(error, message) ]

(***************************************************************************)
(* TriangleRender (Component/renderers/triangle_render.cpp)                *)
(***************************************************************************)
\* A static_cast in place of the dynamic_cast: any config passes
TriangleRender_castConfig_Unchecked(config) == TRUE

\* An initializeGeometry that tests for empty vertices after generating
\* and storing the vertex array and buffer
TriangleRender_initializeGeometry_ChecksLate(g, nverts) ==
    LET vao == FreshName(g.vaos)
        vbo == FreshName(g.buffers)
        g1  == GlGenVertexArrays(g, vao)
        g2  == GlCall(g1, <<"glBindVertexArray", vao>>)
        g3  == GlGenBuffers(g2, vbo)
        g4  == GlCall(g3, <<"glBindBuffer", vbo>>)
        g5  == GlCall(g4, <<"glBufferData", nverts, "TriangleVertex">>)
        g6  == GlCall(g5, <<"glVertexAttribPointer", 0, 3, "TriangleVertex">>)
        g7  == GlCall(g6, <<"glVertexAttribPointer", 1, 3, "TriangleVertex">>)
        g8  == GlCall(g7, <<"glBindVertexArray", 0>>)
    IN  IF nverts = 0
        THEN [ ret |-> FALSE, vao |-> vao, vbo |-> vbo,
               vertexCount |-> m_vertexCount, gl |-> g3 ]
        ELSE [ ret |-> TRUE, vao |-> vao, vbo |-> vbo, vertexCount |-> nverts, gl |-> g8 ]

\* dynamic_cast<const TriangleConfig*>(&config) yields a non-null pointer
TriangleRender_castConfig(config) == config.type = "TriangleConfig"

TriangleRender_initializeGeometry(g, nverts) ==
    IF nverts = 0
    THEN [ ret |-> FALSE, vao |-> m_vao, vbo |-> m_vbo,
           vertexCount |-> m_vertexCount, gl |-> g ]
    ELSE LET vao == FreshName(g.vaos)
             vbo == FreshName(g.buffers)
             g1  == GlGenVertexArrays(g, vao)
             g2  == GlCall(g1, <<"glBindVertexArray", vao>>)
             g3  == GlGenBuffers(g2, vbo)
             g4  == GlCall(g3, <<"glBindBuffer", vbo>>)
             g5  == GlCall(g4, <<"glBufferData", nverts, "TriangleVertex">>)
             g6  == GlCall(g5, <<"glVertexAttribPointer", 0, 3, "TriangleVertex">>)
             g7  == GlCall(g6, <<"glVertexAttribPointer", 1, 3, "TriangleVertex">>)
             g8  == GlCall(g7, <<"glBindVertexArray", 0>>)
         IN  [ ret |-> TRUE, vao |-> vao, vbo |-> vbo, vertexCount |-> nverts, gl |-> g8 ]

\* An initialize that compiles the shaders before it looks at the config type
TriangleRender_initialize_CompilesFirst(config) ==
    LET ld  == Shader_loadFromSource(m_shader, GlBegin(gl), config.vs, config.fs)
        geo == TriangleRender_initializeGeometry(ld.gl, config.nverts)
    IN  /\ variant = "TriangleRender"
        /\ WithinBounds
        /\ IF ~ld.ret
           THEN /\ Failed("initialize", "ShaderCompilationFailed",
                          <<"Failed to compile shader: ">> \o ld.sh.lastError)
                /\ m_shader' = ld.sh
                /\ gl' = ld.gl
                /\ UNCHANGED << m_vao, m_vbo, m_vertexCount, m_clearColor,
                                m_rotationSpeed, m_initialized >>
           ELSE IF ~TriangleRender_castConfig(config)
           THEN /\ Failed("initialize", "InitializationFailed",
                          <<"Invalid config type for TriangleRender">>)
                /\ m_shader' = ld.sh
                /\ gl' = ld.gl
                /\ UNCHANGED << m_vao, m_vbo, m_vertexCount, m_clearColor,
                                m_rotationSpeed, m_initialized >>
           ELSE IF ~geo.ret
           THEN /\ Failed("initialize", "BufferCreationFailed",
                          <<"Failed to create vertex buffer">>)
                /\ m_shader' = ld.sh
                /\ gl' = geo.gl
                /\ m_vao' = geo.vao
                /\ m_vbo' = geo.vbo
                /\ m_vertexCount' = geo.vertexCount
                /\ UNCHANGED << m_clearColor, m_rotationSpeed, m_initialized >>
           ELSE /\ NoReport("initialize", <<TRUE>>)
                /\ m_shader' = ld.sh
                /\ gl' = geo.gl
                /\ m_vao' = geo.vao
                /\ m_vbo' = geo.vbo
                /\ m_vertexCount' = geo.vertexCount
                /\ m_clearColor' = config.clearColor
                /\ m_rotationSpeed' = config.rotationSpeed
                /\ m_initialized' = TRUE
        /\ steady' = (m_initialized' /\ last'.ret = <<TRUE>> /\ m_currentAngle = 0)
        /\ UNCHANGED << variant, m_projection, m_currentAngle, m_errorCallback, frameCount >>

TriangleRender_initialize(config) ==
    LET ld  == Shader_loadFromSource(m_shader, GlBegin(gl), config.vs, config.fs)
        geo == TriangleRender_initializeGeometry(ld.gl, config.nverts)
    IN  /\ variant = "TriangleRender"
        /\ WithinBounds
        /\ IF ~TriangleRender_castConfig(config)
           THEN /\ Failed("initialize", "InitializationFailed",
                          <<"Invalid config type for TriangleRender">>)
                /\ gl' = GlBegin(gl)
                /\ UNCHANGED << m_shader, m_vao, m_vbo, m_vertexCount, m_clearColor,
                                m_rotationSpeed, m_initialized >>
           ELSE IF ~ld.ret
           THEN /\ Failed("initialize", "ShaderCompilationFailed",
                          <<"Failed to compile shader: ">> \o ld.sh.lastError)
                /\ m_shader' = ld.sh
                /\ gl' = ld.gl
                /\ UNCHANGED << m_vao, m_vbo, m_vertexCount, m_clearColor,
                                m_rotationSpeed, m_initialized >>
           ELSE IF ~geo.ret
           THEN /\ Failed("initialize", "BufferCreationFailed",
                          <<"Failed to create vertex buffer">>)
                /\ m_shader' = ld.sh
                /\ gl' = geo.gl
                /\ m_vao' = geo.vao
                /\ m_vbo' = geo.vbo
                /\ m_vertexCount' = geo.vertexCount
                /\ UNCHANGED << m_clearColor, m_rotationSpeed, m_initialized >>
           ELSE /\ NoReport("initialize", <<TRUE>>)
                /\ m_shader' = ld.sh
                /\ gl' = geo.gl
                /\ m_vao' = geo.vao
                /\ m_vbo' = geo.vbo
                /\ m_vertexCount' = geo.vertexCount
                /\ m_clearColor' = config.clearColor
                /\ m_rotationSpeed' = config.rotationSpeed
                /\ m_initialized' = TRUE
        /\ steady' = (m_initialized' /\ last'.ret = <<TRUE>> /\ m_currentAngle = 0)
        /\ UNCHANGED << variant, m_projection, m_currentAngle, m_errorCallback, frameCount >>

\* A render that advances the angle before it looks at m_initialized
TriangleRender_render_TurnsWhenUninitialized(context) ==
    LET angle == NextAngle(m_currentAngle, m_rotationSpeed)
        g1 == GlCall(GlBegin(gl), <<"glClearColor", m_clearColor>>)
        g2 == GlCall(g1, <<"glClear">>)
        g3 == Shader_use(m_shader, g2)
        set == Shader_setMat4(m_shader, g3, "mvp", Mvp(context.projection, angle))
        g4 == GlCall(set.gl, <<"glBindVertexArray", m_vao>>)
        g5 == GlCall(g4, <<"glDrawArrays", "GL_TRIANGLES", 0, m_vertexCount>>)
        g6 == GlCall(g5, <<"glBindVertexArray", 0>>)
        g7 == Shader_unuse(set.sh, g6)
    IN  /\ variant = "TriangleRender"
        /\ IF ~m_initialized
           THEN /\ Failed("render", "InitializationFailed", <<"Renderer not initialized">>)
                /\ gl' = GlBegin(gl)
                /\ m_currentAngle' = angle
                /\ UNCHANGED << m_shader, frameCount >>
           ELSE /\ frameCount < MaxRenders
                /\ NoReport("render", <<TRUE>>)
                /\ m_currentAngle' = angle
                /\ m_shader' = set.sh
                /\ gl' = g7
                /\ frameCount' = frameCount + 1
        /\ UNCHANGED << variant, m_vao, m_vbo, m_projection, m_clearColor, m_rotationSpeed,
                        m_vertexCount, m_initialized, m_errorCallback, steady >>

\* A render that refuses a context whose viewport has no width
TriangleRender_render_SkipsEmptyViewport(context) ==
    LET angle == NextAngle(m_currentAngle, m_rotationSpeed)
        g1 == GlCall(GlBegin(gl), <<"glClearColor", m_clearColor>>)
        g2 == GlCall(g1, <<"glClear">>)
        g3 == Shader_use(m_shader, g2)
        set == Shader_setMat4(m_shader, g3, "mvp", Mvp(context.projection, angle))
        g4 == GlCall(set.gl, <<"glBindVertexArray", m_vao>>)
        g5 == GlCall(g4, <<"glDrawArrays", "GL_TRIANGLES", 0, m_vertexCount>>)
        g6 == GlCall(g5, <<"glBindVertexArray", 0>>)
        g7 == Shader_unuse(set.sh, g6)
    IN  /\ variant = "TriangleRender"
        /\ IF ~m_initialized \/ context.width = 0
           THEN /\ Failed("render", "InitializationFailed", <<"Renderer not initialized">>)
                /\ gl' = GlBegin(gl)
                /\ UNCHANGED << m_shader, m_currentAngle, frameCount >>
           ELSE /\ frameCount < MaxRenders
                /\ NoReport("render", <<TRUE>>)
                /\ m_currentAngle' = angle
                /\ m_shader' = set.sh
                /\ gl' = g7
                /\ frameCount' = frameCount + 1
        /\ UNCHANGED << variant, m_vao, m_vbo, m_projection, m_clearColor, m_rotationSpeed,
                        m_vertexCount, m_initialized, m_errorCallback, steady >>

\* A render that advances the angle by m_rotationSpeed * context.deltaTime()
TriangleRender_render_ByDeltaTime(context) ==
    LET angle == NextAngle(m_currentAngle, m_rotationSpeed * context.deltaTime)
        g1 == GlCall(GlBegin(gl), <<"glClearColor", m_clearColor>>)
        g2 == GlCall(g1, <<"glClear">>)
        g3 == Shader_use(m_shader, g2)
        set == Shader_setMat4(m_shader, g3, "mvp", Mvp(context.projection, angle))
        g4 == GlCall(set.gl, <<"glBindVertexArray", m_vao>>)
        g5 == GlCall(g4, <<"glDrawArrays", "GL_TRIANGLES", 0, m_vertexCount>>)
        g6 == GlCall(g5, <<"glBindVertexArray", 0>>)
        g7 == Shader_unuse(set.sh, g6)
    IN  /\ variant = "TriangleRender"
        /\ IF ~m_initialized
           THEN /\ Failed("render", "InitializationFailed", <<"Renderer not initialized">>)
                /\ gl' = GlBegin(gl)
                /\ UNCHANGED << m_shader, m_currentAngle, frameCount >>
           ELSE /\ frameCount < MaxRenders
                /\ NoReport("render", <<TRUE>>)
                /\ m_currentAngle' = angle
                /\ m_shader' = set.sh
                /\ gl' = g7
                /\ frameCount' = frameCount + 1
        /\ UNCHANGED << variant, m_vao, m_vbo, m_projection, m_clearColor, m_rotationSpeed,
                        m_vertexCount, m_initialized, m_errorCallback, steady >>

TriangleRender_render(context) ==
    LET angle == NextAngle(m_currentAngle, m_rotationSpeed)
        g1 == GlCall(GlBegin(gl), <<"glClearColor", m_clearColor>>)
        g2 == GlCall(g1, <<"glClear">>)
        g3 == Shader_use(m_shader, g2)
        set == Shader_setMat4(m_shader, g3, "mvp", Mvp(context.projection, angle))
        g4 == GlCall(set.gl, <<"glBindVertexArray", m_vao>>)
        g5 == GlCall(g4, <<"glDrawArrays", "GL_TRIANGLES", 0, m_vertexCount>>)
        g6 == GlCall(g5, <<"glBindVertexArray", 0>>)
        g7 == Shader_unuse(set.sh, g6)
    IN  /\ variant = "TriangleRender"
        /\ IF ~m_initialized
           THEN /\ Failed("render", "InitializationFailed", <<"Renderer not initialized">>)
                /\ gl' = GlBegin(gl)
                /\ UNCHANGED << m_shader, m_currentAngle, frameCount >>
           ELSE /\ frameCount < MaxRenders
                /\ NoReport("render", <<TRUE>>)
                /\ m_currentAngle' = angle
                /\ m_shader' = set.sh
                /\ gl' = g7
                /\ frameCount' = frameCount + 1
        /\ UNCHANGED << variant, m_vao, m_vbo, m_projection, m_clearColor, m_rotationSpeed,
                        m_vertexCount, m_initialized, m_errorCallback, steady >>

TriangleRender_resize(width, height) ==
    /\ variant = "TriangleRender"
    /\ gl' = GlCall(GlBegin(gl), <<"glViewport", 0, 0, width, height>>)
    /\ m_projection' = Perspective(Aspect(width, height))
    /\ NoReport("resize", <<TRUE>>)
    /\ UNCHANGED << variant, m_shader, m_vao, m_vbo, m_clearColor, m_rotationSpeed,
                    m_currentAngle, m_vertexCount, m_initialized, m_errorCallback,
                    frameCount, steady >>

TriangleRender_cleanup ==
    LET g1  == IF m_vao # 0 THEN GlDeleteVertexArrays(GlBegin(gl), m_vao) ELSE GlBegin(gl)
        g2  == IF m_vbo # 0 THEN GlDeleteBuffers(g1, m_vbo) ELSE g1
        rel == Shader_release(m_shader, g2)
    IN  /\ variant = "TriangleRender"
        /\ m_vao' = 0
        /\ m_vbo' = 0
        /\ m_shader' = rel.sh
        /\ gl' = rel.gl
        /\ m_initialized' = FALSE
        /\ NoReport("cleanup", <<>>)
        /\ steady' = FALSE
        /\ UNCHANGED << variant, m_projection, m_clearColor, m_rotationSpeed, m_currentAngle,
                        m_vertexCount, m_errorCallback, frameCount >>

\* A setErrorCallback that keeps the callback registered first
TriangleRender_setErrorCallback_KeepsFirst(callback) ==
    /\ variant = "TriangleRender"
    /\ m_errorCallback' = IF m_errorCallback = "none" THEN callback ELSE m_errorCallback
    /\ gl' = GlBegin(gl)
    /\ NoReport("setErrorCallback", <<>>)
    /\ UNCHANGED << variant, m_shader, m_vao, m_vbo, m_projection, m_clearColor,
                    m_rotationSpeed, m_currentAngle, m_vertexCount, m_initialized,
                    frameCount, steady >>

TriangleRender_setErrorCallback(callback) ==
    /\ variant = "TriangleRender"
    /\ m_errorCallback' = callback
    /\ gl' = GlBegin(gl)
    /\ NoReport("setErrorCallback", <<>>)
    /\ UNCHANGED << variant, m_shader, m_vao, m_vbo, m_projection, m_clearColor,
                    m_rotationSpeed, m_currentAngle, m_vertexCount, m_initialized,
                    frameCount, steady >>

(***************************************************************************)
(* CubeRender (Component/renderers/cube_render.cpp)                        *)
(***************************************************************************)
\* dynamic_cast<const CubeConfig*>(&config) yields a non-null pointer
CubeRender_castConfig(config) == config.type = "CubeConfig"

\* An initializeGeometry that keeps the number of triangles as m_vertexCount
CubeRender_initializeGeometry_CountsTriangles(g, nverts) ==
    IF nverts = 0
    THEN [ ret |-> FALSE, vao |-> m_vao, vbo |-> m_vbo,
           vertexCount |-> m_vertexCount, gl |-> g ]
    ELSE LET vao == FreshName(g.vaos)
             vbo == FreshName(g.buffers)
             g1  == GlGenVertexArrays(g, vao)
             g2  == GlCall(g1, <<"glBindVertexArray", vao>>)
             g3  == GlGenBuffers(g2, vbo)
             g4  == GlCall(g3, <<"glBindBuffer", vbo>>)
             g5  == GlCall(g4, <<"glBufferData", nverts, "CubeVertex">>)
             g6  == GlCall(g5, <<"glVertexAttribPointer", 0, 3, "CubeVertex">>)
             g7  == GlCall(g6, <<"glVertexAttribPointer", 1, 2, "CubeVertex">>)
             g8  == GlCall(g7, <<"glBindVertexArray", 0>>)
         IN  [ ret |-> TRUE, vao |-> vao, vbo |-> vbo, vertexCount |-> nverts \div 3, gl |-> g8 ]

CubeRender_initializeGeometry(g, nverts) ==
    IF nverts = 0
    THEN [ ret |-> FALSE, vao |-> m_vao, vbo |-> m_vbo,
           vertexCount |-> m_vertexCount, gl |-> g ]
    ELSE LET vao == FreshName(g.vaos)
             vbo == FreshName(g.buffers)
             g1  == GlGenVertexArrays(g, vao)
             g2  == GlCall(g1, <<"glBindVertexArray", vao>>)
             g3  == GlGenBuffers(g2, vbo)
             g4  == GlCall(g3, <<"glBindBuffer", vbo>>)
             g5  == GlCall(g4, <<"glBufferData", nverts, "CubeVertex">>)
             g6  == GlCall(g5, <<"glVertexAttribPointer", 0, 3, "CubeVertex">>)
             g7  == GlCall(g6, <<"glVertexAttribPointer", 1, 2, "CubeVertex">>)
             g8  == GlCall(g7, <<"glBindVertexArray", 0>>)
         IN  [ ret |-> TRUE, vao |-> vao, vbo |-> vbo, vertexCount |-> nverts, gl |-> g8 ]

CubeRender_initialize(config) ==
    LET ld  == Shader_loadFromSource(m_shader, GlBegin(gl), config.vs, config.fs)
        geo == CubeRender_initializeGeometry(ld.gl, config.nverts)
    IN  /\ variant = "CubeRender"
        /\ WithinBounds
        /\ IF ~CubeRender_castConfig(config)
           THEN /\ Failed("initialize", "InitializationFailed",
                          <<"Invalid config type for CubeRender">>)
                /\ gl' = GlBegin(gl)
                /\ UNCHANGED << m_shader, m_vao, m_vbo, m_vertexCount, m_clearColor,
                                m_rotationSpeed, m_initialized >>
           ELSE IF ~ld.ret
           THEN /\ Failed("initialize", "ShaderCompilationFailed",
                          <<"Failed to compile shader:">> \o ld.sh.lastError)
                /\ m_shader' = ld.sh
                /\ gl' = ld.gl
                /\ UNCHANGED << m_vao, m_vbo, m_vertexCount, m_clearColor,
                                m_rotationSpeed, m_initialized >>
           ELSE IF ~geo.ret
           THEN /\ Failed("initialize", "BufferCreationFailed",
                          <<"Failed to create vertex buffer">>)
                /\ m_shader' = ld.sh
                /\ gl' = geo.gl
                /\ m_vao' = geo.vao
                /\ m_vbo' = geo.vbo
                /\ m_vertexCount' = geo.vertexCount
                /\ UNCHANGED << m_clearColor, m_rotationSpeed, m_initialized >>
           ELSE /\ NoReport("initialize", <<TRUE>>)
                /\ m_shader' = ld.sh
                /\ gl' = geo.gl
                /\ m_vao' = geo.vao
                /\ m_vbo' = geo.vbo
                /\ m_vertexCount' = geo.vertexCount
                /\ m_clearColor' = config.clearColor
                /\ m_rotationSpeed' = config.rotationSpeed
                /\ m_initialized' = TRUE
        /\ steady' = (m_initialized' /\ last'.ret = <<TRUE>> /\ m_currentAngle = 0)
        /\ UNCHANGED << variant, m_projection, m_currentAngle, m_errorCallback, frameCount >>

CubeRender_render(context) ==
    LET angle == NextAngle(m_currentAngle, m_rotationSpeed)
        g1 == GlCall(GlBegin(gl), <<"glClearColor", m_clearColor>>)
        g2 == GlCall(g1, <<"glClear">>)
        g3 == Shader_use(m_shader, g2)
        set == Shader_setMat4(m_shader, g3, "mvp", Mvp(context.projection, angle))
        g4 == GlCall(set.gl, <<"glBindVertexArray", m_vao>>)
        g5 == GlCall(g4, <<"glDrawArrays", "GL_TRIANGLES", 0, m_vertexCount>>)
        g6 == GlCall(g5, <<"glBindVertexArray", 0>>)
        g7 == Shader_unuse(set.sh, g6)
    IN  /\ variant = "CubeRender"
        /\ IF ~m_initialized
           THEN /\ Failed("render", "InitializationFailed", <<"CubeRender not initialized">>)
                /\ gl' = GlBegin(gl)
                /\ UNCHANGED << m_shader, m_currentAngle, frameCount >>
           ELSE /\ frameCount < MaxRenders
                /\ NoReport("render", <<TRUE>>)
                /\ m_currentAngle' = angle
                /\ m_shader' = set.sh
                /\ gl' = g7
                /\ frameCount' = frameCount + 1
        /\ UNCHANGED << variant, m_vao, m_vbo, m_projection, m_clearColor, m_rotationSpeed,
                        m_vertexCount, m_initialized, m_errorCallback, steady >>

CubeRender_resize(width, height) ==
    /\ variant = "CubeRender"
    /\ gl' = GlCall(GlBegin(gl), <<"glViewport", 0, 0, width, height>>)
    /\ m_projection' = Perspective(Aspect(width, height))
    /\ NoReport("resize", <<TRUE>>)
    /\ UNCHANGED << variant, m_shader, m_vao, m_vbo, m_clearColor, m_rotationSpeed,
                    m_currentAngle, m_vertexCount, m_initialized, m_errorCallback,
                    frameCount, steady >>

CubeRender_cleanup ==
    LET g1  == IF m_vao # 0 THEN GlDeleteBuffers(GlBegin(gl), m_vao) ELSE GlBegin(gl)
        g2  == IF m_vbo # 0 THEN GlDeleteBuffers(g1, m_vbo) ELSE g1
        rel == Shader_release(m_shader, g2)
    IN  /\ variant = "CubeRender"
        /\ m_vao' = 0
        /\ m_vbo' = 0
        /\ m_shader' = rel.sh
        /\ gl' = rel.gl
        /\ m_initialized' = FALSE
        /\ NoReport("cleanup", <<>>)
        /\ steady' = FALSE
        /\ UNCHANGED << variant, m_projection, m_clearColor, m_rotationSpeed, m_currentAngle,
                        m_vertexCount, m_errorCallback, frameCount >>

CubeRender_setErrorCallback(callback) ==
    /\ variant = "CubeRender"
    /\ m_errorCallback' = callback
    /\ gl' = GlBegin(gl)
    /\ NoReport("setErrorCallback", <<>>)
    /\ UNCHANGED << variant, m_shader, m_vao, m_vbo, m_projection, m_clearColor,
                    m_rotationSpeed, m_currentAngle, m_vertexCount, m_initialized,
                    frameCount, steady >>

(***************************************************************************)
(* The earlier draft of TriangleRender (Component/triangle_render.cpp):    *)
(* it takes a RenderConfig with shader paths, manages its own program in   *)
(* m_shaderProgram (held in m_shader.programId here) and has no config     *)
(* type check.                                                             *)
(***************************************************************************)
Draft_compileShader(g, type, source) ==
    LET id == FreshName(g.programs \cup ShaderNames(g))
        g1 == GlCreateShader(g, type, id)
        g2 == GlShaderSource(g1, id, source)
        g3 == GlCall(g2, <<"glCompileShader", id>>)
    IN  IF ~CompileOk(source) THEN [ gl |-> g3, ret |-> 0 ] ELSE [ gl |-> g3, ret |-> id ]

Draft_createShaderProgram(g, vertexShader, fragmentShader) ==
    LET id == FreshName(g.programs \cup ShaderNames(g))
        g1 == GlCreateProgram(g, id)
        g2 == GlCall(g1, <<"glAttachShader", id, vertexShader>>)
        g3 == GlCall(g2, <<"glAttachShader", id, fragmentShader>>)
        g4 == GlCall(g3, <<"glLinkProgram", id>>)
    IN  IF ~LinkOk(SourceOf(g, vertexShader), SourceOf(g, fragmentShader))
        THEN [ gl |-> g4, ret |-> 0 ]
        ELSE [ gl |-> g4, ret |-> id ]

\* vertexSource / fragmentSource are what loadShaderSource reads at the two paths
Draft_initializeShader(g, vertexSource, fragmentSource) ==
    LET vs == Draft_compileShader(g, "GL_VERTEX_SHADER", vertexSource)
        fs == Draft_compileShader(vs.gl, "GL_FRAGMENT_SHADER", fragmentSource)
        pr == Draft_createShaderProgram(fs.gl, vs.ret, fs.ret)
    IN  IF vertexSource = "" \/ fragmentSource = ""
        THEN [ programId |-> m_shader.programId, gl |-> g, ret |-> FALSE ]
        ELSE IF vs.ret = 0 \/ fs.ret = 0
        THEN [ programId |-> m_shader.programId, gl |-> fs.gl, ret |-> FALSE ]
        ELSE [ programId |-> pr.ret,
               gl  |-> GlDeleteShader(GlDeleteShader(pr.gl, vs.ret), fs.ret),
               ret |-> pr.ret # 0 ]

Draft_initializeGeometry(g, nverts) ==
    IF nverts = 0
    THEN [ ret |-> FALSE, vao |-> m_vao, vbo |-> m_vbo,
           vertexCount |-> m_vertexCount, gl |-> g ]
    ELSE LET vao == FreshName(g.vaos)
             vbo == FreshName(g.buffers)
             g1  == GlGenVertexArrays(g, vao)
             g2  == GlCall(g1, <<"glBindVertexArray", vao>>)
             g3  == GlGenBuffers(g2, vbo)
             g4  == GlCall(g3, <<"glBindBuffer", vbo>>)
             g5  == GlCall(g4, <<"glBufferData", nverts, "VertexData">>)
             g6  == GlCall(g5, <<"glVertexAttribPointer", 0, 3, "VertexData">>)
             g7  == GlCall(g6, <<"glVertexAttribPointer", 1, 3, "VertexData">>)
             g8  == GlCall(g7, <<"glBindVertexArray", 0>>)
         IN  [ ret |-> TRUE, vao |-> vao, vbo |-> vbo, vertexCount |-> nverts, gl |-> g8 ]

Draft_initialize(config) ==
    LET sh  == Draft_initializeShader(GlBegin(gl), config.vs, config.fs)
        geo == Draft_initializeGeometry(sh.gl, config.nverts)
    IN  /\ variant = "TriangleRenderDraft"
        /\ WithinBounds
        /\ IF ~sh.ret
           THEN /\ Failed("initialize", "ShaderCompilationFailed",
                          <<"Failed to compile shader">>)
                /\ m_shader' = [ m_shader EXCEPT !.programId = sh.programId ]
                /\ gl' = sh.gl
                /\ UNCHANGED << m_vao, m_vbo, m_vertexCount, m_clearColor,
                                m_rotationSpeed, m_initialized >>
           ELSE IF ~geo.ret
           THEN /\ Failed("initialize", "BufferCreationFailed",
                          <<"Failed to create vertex buffer">>)
                /\ m_shader' = [ m_shader EXCEPT !.programId = sh.programId ]
                /\ gl' = geo.gl
                /\ m_vao' = geo.vao
                /\ m_vbo' = geo.vbo
                /\ m_vertexCount' = geo.vertexCount
                /\ UNCHANGED << m_clearColor, m_rotationSpeed, m_initialized >>
           ELSE /\ NoReport("initialize", <<TRUE>>)
                /\ m_shader' = [ m_shader EXCEPT !.programId = sh.programId ]
                /\ gl' = geo.gl
                /\ m_vao' = geo.vao
                /\ m_vbo' = geo.vbo
                /\ m_vertexCount' = geo.vertexCount
                /\ m_clearColor' = config.clearColor
                /\ m_rotationSpeed' = config.rotationSpeed
                /\ m_initialized' = TRUE
        /\ steady' = (m_initialized' /\ last'.ret = <<TRUE>> /\ m_currentAngle = 0)
        /\ UNCHANGED << variant, m_projection, m_currentAngle, m_errorCallback, frameCount >>

Draft_render(context) ==
    LET angle == NextAngle(m_currentAngle, m_rotationSpeed)
        mvpLoc == GlGetUniformLocation(gl, m_shader.programId, "mvp")
        g1 == GlCall(GlBegin(gl), <<"glClearColor", m_clearColor>>)
        g2 == GlCall(g1, <<"glClear">>)
        g3 == GlCall(g2, <<"glUseProgram", m_shader.programId>>)
        g4 == GlCall(g3, <<"glGetUniformLocation", m_shader.programId, "mvp">>)
        g5 == GlCall(g4, <<"glUniformMatrix4fv", mvpLoc, Mvp(context.projection, angle)>>)
        g6 == GlCall(g5, <<"glBindVertexArray", m_vao>>)
        g7 == GlCall(g6, <<"glDrawArrays", "GL_TRIANGLES", 0, m_vertexCount>>)
        g8 == GlCall(g7, <<"glBindVertexArray", 0>>)
    IN  /\ variant = "TriangleRenderDraft"
        /\ IF ~m_initialized
           THEN /\ Failed("render", "InitializationFailed", <<"Render not initialized">>)
                /\ gl' = GlBegin(gl)
                /\ UNCHANGED << m_currentAngle, frameCount >>
           ELSE /\ frameCount < MaxRenders
                /\ NoReport("render", <<TRUE>>)
                /\ m_currentAngle' = angle
                /\ gl' = g8
                /\ frameCount' = frameCount + 1
        /\ UNCHANGED << variant, m_shader, m_vao, m_vbo, m_projection, m_clearColor,
                        m_rotationSpeed, m_vertexCount, m_initialized, m_errorCallback,
                        steady >>

Draft_resize(width, height) ==
    /\ variant = "TriangleRenderDraft"
    /\ gl' = GlCall(GlBegin(gl), <<"glViewport", 0, 0, width, height>>)
    /\ m_projection' = Perspective(Aspect(width, height))
    /\ NoReport("resize", <<TRUE>>)
    /\ UNCHANGED << variant, m_shader, m_vao, m_vbo, m_clearColor, m_rotationSpeed,
                    m_currentAngle, m_vertexCount, m_initialized, m_errorCallback,
                    frameCount, steady >>

Draft_cleanup ==
    LET g1 == IF m_vao # 0 THEN GlDeleteVertexArrays(GlBegin(gl), m_vao) ELSE GlBegin(gl)
        g2 == IF m_vbo # 0 THEN GlDeleteBuffers(g1, m_vbo) ELSE g1
        g3 == IF m_shader.programId # 0 THEN GlDeleteProgram(g2, m_shader.programId) ELSE g2
    IN  /\ variant = "TriangleRenderDraft"
        /\ m_vao' = 0
        /\ m_vbo' = 0
        /\ m_shader' = [ m_shader EXCEPT !.programId = 0 ]
        /\ gl' = g3
        /\ m_initialized' = FALSE
        /\ NoReport("cleanup", <<>>)
        /\ steady' = FALSE
        /\ UNCHANGED << variant, m_projection, m_clearColor, m_rotationSpeed, m_currentAngle,
                        m_vertexCount, m_errorCallback, frameCount >>

Draft_setErrorCallback(callback) ==
    /\ variant = "TriangleRenderDraft"
    /\ m_errorCallback' = callback
    /\ gl' = GlBegin(gl)
    /\ NoReport("setErrorCallback", <<>>)
    /\ UNCHANGED << variant, m_shader, m_vao, m_vbo, m_projection, m_clearColor,
                    m_rotationSpeed, m_currentAngle, m_vertexCount, m_initialized,
                    frameCount, steady >>

(***************************************************************************)
(* The renderer after construction, and its life through IRenderer.        *)
(***************************************************************************)
Constructed(classes) ==
    /\ variant \in classes
    /\ m_shader = NewShader
    /\ m_vao = 0
    /\ m_vbo = 0
    /\ m_projection = IF variant = "TriangleRenderDraft"
                      THEN [ kind |-> "default-constructed" ] ELSE Identity
    /\ m_clearColor = IF variant = "CubeRender" THEN DarkGray ELSE DarkBlue
    /\ m_rotationSpeed = 1
    /\ m_currentAngle = 0
    /\ m_vertexCount = 0
    /\ m_initialized = FALSE
    /\ m_errorCallback = "none"
    /\ gl = [ vaos |-> {}, buffers |-> {}, programs |-> {}, shaders |-> {}, calls |-> <<>> ]
    /\ last = [ op |-> "construct", ret |-> <<>>, reported |-> <<>>, delivered |-> <<>> ]
    /\ frameCount = 0
    /\ steady = FALSE

\* The calls through the IRenderer interface
Initialize(config) ==
    \/ TriangleRender_initialize(config)
    \/ CubeRender_initialize(config)
    \/ Draft_initialize(config)

Render(context) ==
    \/ TriangleRender_render(context)
    \/ CubeRender_render(context)
    \/ Draft_render(context)

Resize(width, height) ==
    \/ TriangleRender_resize(width, height)
    \/ CubeRender_resize(width, height)
    \/ Draft_resize(width, height)

Cleanup == TriangleRender_cleanup \/ CubeRender_cleanup \/ Draft_cleanup

SetErrorCallback(callback) ==
    \/ TriangleRender_setErrorCallback(callback)
    \/ CubeRender_setErrorCallback(callback)
    \/ Draft_setErrorCallback(callback)

(***************************************************************************)
(* The host side at rest: what the host variables hold in the              *)
(* specifications that drive one renderer with configs and contexts made   *)
(* on the spot.                                                            *)
(***************************************************************************)
NoCall == [ overload |-> "none", arg |-> "", result |-> "null" ]

NoRenderer ==
    [ present |-> FALSE, state |-> <<>>, frameCount |-> 0, steady |-> FALSE ]

TriangleConfig_default ==
    [ type |-> "TriangleConfig", vs |-> "vs_ok", fs |-> "fs_ok", nverts |-> 3,
      clearColor |-> DarkBlue, rotationSpeed |-> 1 ]

\* No config object is held: the storage is dead
NoConfig == [ alive |-> FALSE, value |-> TriangleConfig_default ]

NoBuilderCall == [ op |-> "none", ret |-> "none" ]

DefaultContext == RenderContext(ViewportSize(800, 600), Identity, 0)

NoContextCall ==
    [ op |-> "none", frame |-> Zero64, dt |-> 0,
      receiver |-> DefaultContext, ret |-> DefaultContext ]

\* No Shader object is held: both storages are dead
ShaderSlots == { "a", "b" }

NoShaders == [ slot \in ShaderSlots |-> [ alive |-> FALSE, obj |-> NewShader ] ]

\* The globals of native_renderer.cpp as the file initializes them; 0 stands
\* for EGL_NO_DISPLAY, EGL_NO_SURFACE, EGL_NO_CONTEXT and nullptr
NoJniRenderer == [ present |-> FALSE, initialized |-> FALSE, width |-> 0, height |-> 0 ]

JniGlobals ==
    [ g_display |-> 0, g_surface |-> 0, g_context |-> 0, g_window |-> 0,
      g_renderer |-> NoJniRenderer, g_projectionMatrix |-> Identity,
      g_width |-> 0, g_height |-> 0, g_frameNumber |-> 0, g_initialized |-> FALSE,
      op |-> "JNI_OnLoad", ret |-> "void", calls |-> <<>> ]

\* The EGL implementation before any call: the display is not initialized,
\* no surface, no context, nothing current, no reference on a native window
NoEgl ==
    [ initialized |-> FALSE, surfaces |-> {}, contexts |-> {},
      current |-> << 0, 0 >>, windowRefs |-> 0 ]

\* main has not started.  A std::thread object is "none" before its
\* construction, then "joinable", "joined" or "detached", and "destroyed"
\* after its destructor; left is what its function has still to run.
NoThread == [ object |-> "none", left |-> 0 ]

NoProcess ==
    [ pc |-> "main", t1 |-> NoThread, t3_DetechTest |-> NoThread,
      threadTest |-> "none", threads |-> << >>, exit |-> "running" ]

\* The host variables other than the build
HostAtRest ==
    /\ shaderObjs = NoShaders
    /\ jni = JniGlobals
    /\ egl = NoEgl
    /\ proc = NoProcess
    /\ made = NoCall
    /\ other = NoRenderer
    /\ cfg = NoConfig
    /\ cfgRet = NoBuilderCall
    /\ initConfig = TriangleConfig_default
    /\ ctx = DefaultContext
    /\ ctxRet = NoContextCall

\* The flags are given without a value (-DUSE_CUBE_RENDER), which defines
\* them as 1
PlainFlags == USE_CUBE_RENDER = IF "CubeRender" \in build THEN 1 ELSE 0

\* The values a build can give USE_CUBE_RENDER: 0 or 1 when it is defined
FlagValues == IF "CubeRender" \in build THEN {0, 1} ELSE {0}

HostIdle == build = CurrentVariants /\ PlainFlags /\ HostAtRest

(***************************************************************************)
(* One current renderer driven through IRenderer.                          *)
(***************************************************************************)
Init == Constructed(CurrentVariants) /\ HostIdle

Next ==
    \/ \E config \in Configs :
           TriangleRender_initialize(config) /\ UNCHANGED hostVars
    \/ \E config \in Configs :
           CubeRender_initialize(config) /\ UNCHANGED hostVars
    \/ \E context \in Contexts :
           TriangleRender_render(context) /\ UNCHANGED hostVars
    \/ \E context \in Contexts :
           CubeRender_render(context) /\ UNCHANGED hostVars
    \/ \E width \in Widths, height \in Heights :
           TriangleRender_resize(width, height) /\ UNCHANGED hostVars
    \/ \E width \in Widths, height \in Heights :
           CubeRender_resize(width, height) /\ UNCHANGED hostVars
    \/ TriangleRender_cleanup /\ UNCHANGED hostVars
    \/ CubeRender_cleanup /\ UNCHANGED hostVars
    \/ \E callback \in Callbacks \cup {"none"} :
           TriangleRender_setErrorCallback(callback) /\ UNCHANGED hostVars
    \/ \E callback \in Callbacks \cup {"none"} :
           CubeRender_setErrorCallback(callback) /\ UNCHANGED hostVars

Spec == Init /\ [][Next]_vars

\* The draft renderer on its own
InitDraft == Constructed(DraftVariants) /\ HostIdle

NextDraft ==
    \/ \E config \in DraftConfigs : Draft_initialize(config) /\ UNCHANGED hostVars
    \/ \E context \in Contexts : Draft_render(context) /\ UNCHANGED hostVars
    \/ \E width \in Widths, height \in Heights :
           Draft_resize(width, height) /\ UNCHANGED hostVars
    \/ Draft_cleanup /\ UNCHANGED hostVars
    \/ \E callback \in Callbacks \cup {"none"} :
           Draft_setErrorCallback(callback) /\ UNCHANGED hostVars

SpecDraft == InitDraft /\ [][NextDraft]_vars

(***************************************************************************)
(* RenderContext on its own: the host makes contexts and derives new ones  *)
(* from the one it holds.  ctxRet keeps, of the last call, the receiver as *)
(* the call left it and the context the call returned.                     *)
(***************************************************************************)
NewContext(viewportSize, projectionMatrix, deltaTime) ==
    /\ ctx' = RenderContext(viewportSize, projectionMatrix, deltaTime)
    /\ ctxRet' = [ NoContextCall EXCEPT !.op = "RenderContext", !.dt = deltaTime,
                                        !.receiver = ctx', !.ret = ctx' ]
    /\ UNCHANGED << rendererVars, gl, last, frameCount, steady,
                    build, made, other, cfg, cfgRet, initConfig, sideVars >>

\* context = context.withFrameNumber(frame) (main.cpp:259, native_renderer.cpp:
\* 548): the context returned is assigned over the one held
WithFrameNumber(frame) ==
    LET r == RenderContext_withFrameNumber(ctx, frame)
    IN  /\ ctx' = r.ret
        /\ ctxRet' = [ op |-> "withFrameNumber", frame |-> frame, dt |-> 0,
                       receiver |-> r.self, ret |-> r.ret ]
        /\ UNCHANGED << rendererVars, gl, last, frameCount, steady,
                        build, made, other, cfg, cfgRet, initConfig, sideVars >>

\* context.withDeltaTime(dt): the call alone, the context returned is a
\* temporary
WithDeltaTime(dt) ==
    LET r == RenderContext_withDeltaTime(ctx, dt)
    IN  /\ ctx' = r.self
        /\ ctxRet' = [ op |-> "withDeltaTime", frame |-> Zero64, dt |-> dt,
                       receiver |-> r.self, ret |-> r.ret ]
        /\ UNCHANGED << rendererVars, gl, last, frameCount, steady,
                        build, made, other, cfg, cfgRet, initConfig, sideVars >>

\* The frame number after the one of ctx, explored from the listed numbers
NextFrames == IF ctx.frameNumber \in FrameNumbers THEN {Inc64(ctx.frameNumber)} ELSE {}

InitContext == Constructed(CurrentVariants) /\ HostIdle

NextContext ==
    \/ \E vp \in Viewports, p \in Projections, dt \in DeltaTimes : NewContext(vp, p, dt)
    \/ \E frame \in FrameNumbers \cup NextFrames : WithFrameNumber(frame)
    \/ \E dt \in DeltaTimes : WithDeltaTime(dt)

SpecContext == InitContext /\ [][NextContext]_vars

(***************************************************************************)
(* The config classes: TriangleConfig and CubeConfig (renderers/           *)
(* triangle_config.hpp, cube_config.hpp), whose builders read alike, and   *)
(* RenderConfig (render_config.hpp).  A config object is the record of its *)
(* members, the vertex list being the sequence of its vertices; a builder  *)
(* is an operator from the object to the object afterwards (self) and the  *)
(* reference returned (ret, "this" for *this).                             *)
(***************************************************************************)
Black == <<0, 0, 0, 10>>
TriangleVertices == <<1, 2, 3>>
QuadVertices == <<1, 2, 3, 3, 4, 1>>

\* TriangleConfig_default with its vertex list
TriangleConfig_new ==
    [ type |-> "TriangleConfig", vs |-> "vs_ok", fs |-> "fs_ok",
      vertices |-> TriangleVertices, clearColor |-> DarkBlue, rotationSpeed |-> 1 ]

CubeConfig_new ==
    [ type |-> "CubeConfig", vs |-> "vs_ok", fs |-> "fs_ok",
      vertices |-> QuadVertices, clearColor |-> DarkGray, rotationSpeed |-> 1 ]

\* RenderConfig() = default
RenderConfig_new ==
    [ type |-> "RenderConfig", vs |-> "", fs |-> "",
      vertices |-> <<>>, clearColor |-> Black, rotationSpeed |-> 1 ]

\* A builder that refuses an empty vertex list
Config_setVertices_RejectsEmpty(self, v) ==
    [ self |-> IF v = <<>> THEN self ELSE [ self EXCEPT !.vertices = v ], ret |-> "this" ]

Config_setVertices(self, v) ==
    [ self |-> [ self EXCEPT !.vertices = v ], ret |-> "this" ]

Config_setClearColor(self, c) ==
    [ self |-> [ self EXCEPT !.clearColor = c ], ret |-> "this" ]

Config_setRotationSpeed(self, speed) ==
    [ self |-> [ self EXCEPT !.rotationSpeed = speed ], ret |-> "this" ]

RenderConfig_setVertexShaderSource(self, source) ==
    [ self |-> [ self EXCEPT !.vs = source ], ret |-> "this" ]

RenderConfig_setFragmentShaderSource(self, source) ==
    [ self |-> [ self EXCEPT !.fs = source ], ret |-> "this" ]

RenderConfig_setVertexData(self, data) ==
    [ self |-> [ self EXCEPT !.vertices = data ], ret |-> "this" ]

RenderConfig_setClearColor(self, r, g, b, a) ==
    [ self |-> [ self EXCEPT !.clearColor = <<r, g, b, a>> ], ret |-> "this" ]

RenderConfig_setRotationSpeed(self, speed) ==
    [ self |-> [ self EXCEPT !.rotationSpeed = speed ], ret |-> "this" ]

\* RenderTraits<tag>: the defaults of a renderer tag
TraitsQuadVertices == <<1, 2, 3, 4>>

RenderTraits(tag) ==
    IF tag = "CubeRendererTag"
    THEN [ vertexShaderSource |-> "vs_ok", fragmentShaderSource |-> "fs_ok",
           defaultVertices |-> TraitsQuadVertices, defaultClearColor |-> Black,
           defaultRotationSpeed |-> 1 ]
    ELSE [ vertexShaderSource |-> "vs_ok", fragmentShaderSource |-> "fs_ok",
           defaultVertices |-> TriangleVertices, defaultClearColor |-> DarkBlue,
           defaultRotationSpeed |-> 1 ]

\* using ActiveRenderer = ...: #ifdef USE_TRIANGLE_RENDER, #elif
\* USE_CUBE_RENDER (the value of the macro, not whether it is defined)
ActiveRenderer ==
    IF "TriangleRender" \in build THEN "TriangleRendererTag"
    ELSE IF USE_CUBE_RENDER # 0 THEN "CubeRendererTag"
    ELSE "TriangleRendererTag"

\* RenderConfig::createDefaultConfig() with the traits of the active renderer
RenderConfig_createDefaultConfig ==
    LET Traits == RenderTraits(ActiveRenderer)
        c1 == RenderConfig_setVertexShaderSource(RenderConfig_new,
                                                 Traits.vertexShaderSource).self
        c2 == RenderConfig_setFragmentShaderSource(c1, Traits.fragmentShaderSource).self
        c3 == RenderConfig_setVertexData(c2, Traits.defaultVertices).self
    IN  [ c3 EXCEPT !.clearColor = Traits.defaultClearColor,
                    !.rotationSpeed = Traits.defaultRotationSpeed ]

\* The accessors
Config_vertexShaderSource(self) == self.vs
Config_fragmentShaderSource(self) == self.fs
Config_vertices(self) == self.vertices
Config_clearColor(self) == self.clearColor
Config_rotationSpeed(self) == self.rotationSpeed

\* A reading of the config that takes the speed of a default config
ConfigView_DefaultSpeed(self) ==
    [ type |-> self.type,
      vs |-> Config_vertexShaderSource(self), fs |-> Config_fragmentShaderSource(self),
      nverts |-> Len(Config_vertices(self)),
      clearColor |-> Config_clearColor(self), rotationSpeed |-> 1 ]

\* The config as initialize reads it through the accessors
ConfigView(self) ==
    [ type |-> self.type,
      vs |-> Config_vertexShaderSource(self), fs |-> Config_fragmentShaderSource(self),
      nverts |-> Len(Config_vertices(self)),
      clearColor |-> Config_clearColor(self), rotationSpeed |-> Config_rotationSpeed(self) ]

VertexLists == { <<>>, TriangleVertices }
ClearColors == { DarkBlue, DarkGray }
Speeds == { 1, 180 }
VertexSources == { "", "vs_ok" }
FragmentSources == { "", "fs_ok" }

\* Everything of the state but the config object and the builder call
exceptConfig == << rendererVars, gl, last, frameCount, steady,
                   build, made, other, initConfig, ctx, ctxRet, sideVars >>

\* The host makes a config object
NewConfig(value) ==
    /\ cfg' = [ alive |-> TRUE, value |-> value ]
    /\ cfgRet' = [ op |-> "new", ret |-> "none" ]
    /\ UNCHANGED exceptConfig

\* The host calls a builder: r is what the builder yields on cfg.value
Built(op, r) ==
    /\ cfg.alive
    /\ cfg' = [ cfg EXCEPT !.value = r.self ]
    /\ cfgRet' = [ op |-> op, ret |-> r.ret ]
    /\ UNCHANGED exceptConfig

SetVertices(v) ==
    /\ cfg.value.type \in ConfigTypes
    /\ Built("setVertices", Config_setVertices(cfg.value, v))

SetClearColor(c) ==
    /\ cfg.value.type \in ConfigTypes
    /\ Built("setClearColor", Config_setClearColor(cfg.value, c))

SetRotationSpeed(speed) ==
    /\ cfg.value.type \in ConfigTypes
    /\ Built("setRotationSpeed", Config_setRotationSpeed(cfg.value, speed))

SetVertexShaderSource(source) ==
    /\ cfg.value.type = "RenderConfig"
    /\ Built("setVertexShaderSource", RenderConfig_setVertexShaderSource(cfg.value, source))

SetFragmentShaderSource(source) ==
    /\ cfg.value.type = "RenderConfig"
    /\ Built("setFragmentShaderSource",
             RenderConfig_setFragmentShaderSource(cfg.value, source))

SetVertexData(data) ==
    /\ cfg.value.type = "RenderConfig"
    /\ Built("setVertexData", RenderConfig_setVertexData(cfg.value, data))

SetClearColor4(r, g, b, a) ==
    /\ cfg.value.type = "RenderConfig"
    /\ Built("setClearColor", RenderConfig_setClearColor(cfg.value, r, g, b, a))

SetRotationSpeedOfRenderConfig(speed) ==
    /\ cfg.value.type = "RenderConfig"
    /\ Built("setRotationSpeed", RenderConfig_setRotationSpeed(cfg.value, speed))

\* The config object goes out of scope
DestroyConfig ==
    /\ cfg.alive
    /\ cfg' = NoConfig
    /\ cfgRet' = [ op |-> "delete", ret |-> "none" ]
    /\ UNCHANGED exceptConfig

\* renderer->initialize(config) on the config object held, an IRenderConfig
InitializeWithConfig ==
    /\ cfg.alive
    /\ cfg.value.type \in ConfigTypes
    /\ Initialize(ConfigView(cfg.value))
    /\ initConfig' = IF last'.ret = <<TRUE>> THEN ConfigView(cfg.value) ELSE initConfig
    /\ UNCHANGED << build, made, other, cfg, cfgRet, ctx, ctxRet, sideVars >>

\* The builders on their own
InitBuilder == Constructed(CurrentVariants) /\ HostIdle

NextBuilder ==
    \/ \E value \in {TriangleConfig_new, CubeConfig_new, RenderConfig_new,
                     RenderConfig_createDefaultConfig} : NewConfig(value)
    \/ \E v \in VertexLists : SetVertices(v)
    \/ \E c \in ClearColors : SetClearColor(c)
    \/ \E speed \in Speeds : SetRotationSpeed(speed)
    \/ \E source \in VertexSources : SetVertexShaderSource(source)
    \/ \E source \in FragmentSources : SetFragmentShaderSource(source)
    \/ \E data \in VertexLists : SetVertexData(data)
    \/ \E c \in ClearColors : SetClearColor4(c[1], c[2], c[3], c[4])
    \/ \E speed \in Speeds : SetRotationSpeedOfRenderConfig(speed)
    \/ DestroyConfig

SpecBuilder == InitBuilder /\ [][NextBuilder]_vars

\* The builders in a build with any of the renderers compiled in
InitDefaults ==
    /\ Constructed(CurrentVariants)
    /\ build \in SUBSET CurrentVariants
    /\ USE_CUBE_RENDER \in FlagValues
    /\ HostAtRest

SpecDefaults == InitDefaults /\ [][NextBuilder]_vars

\* A current renderer initialized from a config object that the host goes
\* on changing
InitConfig == Constructed(CurrentVariants) /\ HostIdle

NextConfig ==
    \/ \E value \in {TriangleConfig_new, CubeConfig_new} : NewConfig(value)
    \/ \E v \in VertexLists : SetVertices(v)
    \/ \E c \in ClearColors : SetClearColor(c)
    \/ \E speed \in Speeds : SetRotationSpeed(speed)
    \/ DestroyConfig
    \/ InitializeWithConfig
    \/ Cleanup /\ UNCHANGED hostVars

SpecConfig == InitConfig /\ [][NextConfig]_vars

(***************************************************************************)
(* RenderFactory (Component/render_factory.hpp) and the host that keeps    *)
(* the renderer made in its one m_renderer (the m_ variables): assigning   *)
(* to m_renderer destroys the renderer it held.  A second owner may keep a *)
(* renderer of its own in other; Select exchanges which of the two objects *)
(* the m_ variables stand for.  Both live in the one GL context.           *)
(***************************************************************************)
\* enum class RenderType, and a value outside it (static_cast<RenderType>(2))
RenderTypes == {"Triangle", "Cube", "RenderType(2)"}
TypeNames == {"triangle", "cube", "Triangle", ""}

\* create(RenderType): the class of the object made, "null" for nullptr
RenderFactory_create(type) ==
    IF "TriangleRender" \in build /\ type = "Triangle" THEN "TriangleRender"
    ELSE IF "CubeRender" \in build /\ type = "Cube" THEN "CubeRender"
    ELSE "null"

\* A create(typeName) that compares without regard to case
RenderFactory_createByName_AnyCase(typeName) ==
    IF "TriangleRender" \in build /\ typeName \in {"triangle", "Triangle"}
    THEN RenderFactory_create("Triangle")
    ELSE IF "CubeRender" \in build /\ typeName = "cube" THEN RenderFactory_create("Cube")
    ELSE "null"

\* create(const std::string& typeName)
RenderFactory_createByName(typeName) ==
    IF "TriangleRender" \in build /\ typeName = "triangle"
    THEN RenderFactory_create("Triangle")
    ELSE IF "CubeRender" \in build /\ typeName = "cube" THEN RenderFactory_create("Cube")
    ELSE "null"

\* The members of a renderer of this class after its constructor, in the
\* order of rendererVars
NewRenderer(class) ==
    << class, NewShader, 0, 0, Identity,
       IF class = "CubeRender" THEN DarkGray ELSE DarkBlue, 1, 0, 0, FALSE, "none" >>

\* The host holds no renderer in the m_ variables (m_renderer == nullptr)
NullRenderer == "none"

CubeConfig_default ==
    [ type |-> "CubeConfig", vs |-> "vs_ok", fs |-> "fs_ok", nverts |-> 6,
      clearColor |-> DarkGray, rotationSpeed |-> 1 ]

DefaultConfigs == { TriangleConfig_default, CubeConfig_default }

\* The members of the host when m_renderer is nullptr
NoRendererHeld == << NullRenderer, NewShader, 0, 0, Identity, DarkBlue, 1, 0, 0, FALSE, "none" >>

\* TriangleRender::cleanup() on the renderer r (members in the order of
\* rendererVars) with the GL store g: the renderer and the store afterwards
TriangleRender_cleanupOn(r, g) ==
    LET g1  == IF r[3] # 0 THEN GlDeleteVertexArrays(g, r[3]) ELSE g
        g2  == IF r[4] # 0 THEN GlDeleteBuffers(g1, r[4]) ELSE g1
        rel == Shader_release(r[2], g2)
    IN  [ r |-> [ r EXCEPT ![2] = rel.sh, ![3] = 0, ![4] = 0, ![10] = FALSE ],
          gl |-> rel.gl ]

\* CubeRender::cleanup() on the renderer r
CubeRender_cleanupOn(r, g) ==
    LET g1  == IF r[3] # 0 THEN GlDeleteBuffers(g, r[3]) ELSE g
        g2  == IF r[4] # 0 THEN GlDeleteBuffers(g1, r[4]) ELSE g1
        rel == Shader_release(r[2], g2)
    IN  [ r |-> [ r EXCEPT ![2] = rel.sh, ![3] = 0, ![4] = 0, ![10] = FALSE ],
          gl |-> rel.gl ]

CleanupOn(r, g) ==
    IF r[1] = "TriangleRender" THEN TriangleRender_cleanupOn(r, g)
    ELSE IF r[1] = "CubeRender" THEN CubeRender_cleanupOn(r, g)
    ELSE [ r |-> r, gl |-> g ]

\* The unique_ptr deletes the renderer r it holds, if any: the destructor
\* of its class calls cleanup(), then the Shader member is destroyed.  The
\* GL store afterwards
Deleted(r, g) ==
    LET c == CleanupOn(r, g)
    IN  Shader_release(c.r[2], c.gl).gl

\* m_renderer holds the renderer r from now on
Held(r) ==
    /\ variant' = r[1]
    /\ m_shader' = r[2]
    /\ m_vao' = r[3]
    /\ m_vbo' = r[4]
    /\ m_projection' = r[5]
    /\ m_clearColor' = r[6]
    /\ m_rotationSpeed' = r[7]
    /\ m_currentAngle' = r[8]
    /\ m_vertexCount' = r[9]
    /\ m_initialized' = r[10]
    /\ m_errorCallback' = r[11]

\* m_renderer = RenderFactory::create(...): the renderer made (or nullptr)
\* takes the place of the one held, which is destroyed
Made(overload, arg, class) ==
    /\ made' = [ overload |-> overload, arg |-> arg, result |-> class ]
    /\ last' = [ op |-> "create", ret |-> <<>>, reported |-> <<>>, delivered |-> <<>> ]
    /\ gl' = Deleted(rendererVars, GlBegin(gl))
    /\ Held(IF class = "null" THEN NoRendererHeld ELSE NewRenderer(class))
    /\ frameCount' = 0
    /\ steady' = FALSE
    /\ UNCHANGED << other, build, cfg, cfgRet, initConfig, ctx, ctxRet, sideVars >>

CreateByType(type) == Made("RenderType", type, RenderFactory_create(type))

CreateByName(typeName) == Made("string", typeName, RenderFactory_createByName(typeName))

\* std::unique_ptr<IRenderer> second = RenderFactory::create(typeName): a
\* second owner keeps the renderer made, the one in m_renderer stays
CreateSecond(typeName) ==
    LET class == RenderFactory_createByName(typeName)
    IN  /\ ~other.present
        /\ made' = [ overload |-> "string", arg |-> typeName, result |-> class ]
        /\ last' = [ op |-> "create", ret |-> <<>>, reported |-> <<>>, delivered |-> <<>> ]
        /\ gl' = GlBegin(gl)
        /\ other' = IF class = "null" THEN other
                    ELSE [ present |-> TRUE, state |-> NewRenderer(class),
                           frameCount |-> 0, steady |-> FALSE ]
        /\ UNCHANGED << rendererVars, frameCount, steady,
                        build, cfg, cfgRet, initConfig, ctx, ctxRet, sideVars >>

\* Application::shutdown(): cleanup() on the renderer held, then
\* m_renderer.reset(), which destroys it
Shutdown ==
    /\ gl' = LET c == CleanupOn(rendererVars, GlBegin(gl))
             IN  Deleted(c.r, c.gl)
    /\ Held(NoRendererHeld)
    /\ frameCount' = 0
    /\ steady' = FALSE
    /\ last' = [ op |-> "shutdown", ret |-> <<>>, reported |-> <<>>, delivered |-> <<>> ]
    /\ UNCHANGED << made, other, build, cfg, cfgRet, initConfig, ctx, ctxRet, sideVars >>

\* The host turns to its other renderer
Select ==
    /\ other.present
    /\ variant' = other.state[1]
    /\ m_shader' = other.state[2]
    /\ m_vao' = other.state[3]
    /\ m_vbo' = other.state[4]
    /\ m_projection' = other.state[5]
    /\ m_clearColor' = other.state[6]
    /\ m_rotationSpeed' = other.state[7]
    /\ m_currentAngle' = other.state[8]
    /\ m_vertexCount' = other.state[9]
    /\ m_initialized' = other.state[10]
    /\ m_errorCallback' = other.state[11]
    /\ frameCount' = other.frameCount
    /\ steady' = other.steady
    /\ other' = [ present |-> TRUE, state |-> rendererVars,
                  frameCount |-> frameCount, steady |-> steady ]
    /\ last' = [ op |-> "select", ret |-> <<>>, reported |-> <<>>, delivered |-> <<>> ]
    /\ gl' = GlBegin(gl)
    /\ UNCHANGED << build, made, cfg, cfgRet, initConfig, ctx, ctxRet, sideVars >>

\* renderer->initialize(config) with a default config
InitializeDefault(config) ==
    /\ Initialize(config)
    /\ initConfig' = IF last'.ret = <<TRUE>> THEN config ELSE initConfig
    /\ UNCHANGED << build, made, other, cfg, cfgRet, ctx, ctxRet, sideVars >>

\* No renderer yet, in a build with any of the renderers compiled in
InitFactory ==
    /\ variant = NullRenderer
    /\ m_shader = NewShader
    /\ m_vao = 0
    /\ m_vbo = 0
    /\ m_projection = Identity
    /\ m_clearColor = DarkBlue
    /\ m_rotationSpeed = 1
    /\ m_currentAngle = 0
    /\ m_vertexCount = 0
    /\ m_initialized = FALSE
    /\ m_errorCallback = "none"
    /\ gl = [ vaos |-> {}, buffers |-> {}, programs |-> {}, shaders |-> {}, calls |-> <<>> ]
    /\ last = [ op |-> "construct", ret |-> <<>>, reported |-> <<>>, delivered |-> <<>> ]
    /\ frameCount = 0
    /\ steady = FALSE
    /\ build \in SUBSET CurrentVariants
    /\ PlainFlags
    /\ HostAtRest

\* One renderer: the host makes it, initializes it with a default config,
\* draws, cleans up, makes another in its place and shuts down
NextFactory ==
    \/ \E type \in RenderTypes : CreateByType(type)
    \/ \E typeName \in TypeNames : CreateByName(typeName)
    \/ \E config \in DefaultConfigs : InitializeDefault(config)
    \/ Render(DefaultContext) /\ UNCHANGED hostVars
    \/ Cleanup /\ UNCHANGED hostVars
    \/ Shutdown

SpecFactory == InitFactory /\ [][NextFactory]_vars

\* Two renderers in a build with both classes compiled in
InitShared == InitFactory /\ build = CurrentVariants

NextShared ==
    \/ \E type \in RenderTypes : CreateByType(type)
    \/ \E typeName \in TypeNames : CreateByName(typeName)
    \/ \E typeName \in TypeNames : CreateSecond(typeName)
    \/ Select
    \/ \E config \in DefaultConfigs : InitializeDefault(config)
    \/ Cleanup /\ UNCHANGED hostVars

SpecShared == InitShared /\ [][NextShared]_vars

(***************************************************************************)
(* The error callback: the host registers a first callback, replaces it by *)
(* a second one or clears it, and drives the renderer through failing and  *)
(* succeeding operations.                                                  *)
(***************************************************************************)
\* A config of either type that is valid, does not compile, or has no vertices
CallbackConfigs == { c \in Configs : c.nverts # 6 /\ c.fs = "fs_ok" }

FirstCallback == "cb1"
SecondCallback == "cb2"

\* The one context of a frame of the host
FrameContext == RenderContext(ViewportSize(800, 600), Perspective(Aspect(800, 600)), 16)

InitCallbacks == Constructed(CurrentVariants) /\ HostIdle

NextCallbacks ==
    \/ \E callback \in {FirstCallback, "none"} :
           SetErrorCallback(callback) /\ UNCHANGED hostVars
    \/ /\ m_errorCallback = FirstCallback
       /\ SetErrorCallback(SecondCallback)
       /\ UNCHANGED hostVars
    \/ \E config \in CallbackConfigs : Initialize(config) /\ UNCHANGED hostVars
    \/ Render(FrameContext) /\ UNCHANGED hostVars
    \/ Cleanup /\ UNCHANGED hostVars

SpecCallbacks == InitCallbacks /\ [][NextCallbacks]_vars

(***************************************************************************)
(* Shader objects on their own: the host holds up to two Shader objects in *)
(* one GL context, loads programs into them from source or from files,     *)
(* sets uniforms, moves one into the other, releases and destroys them.    *)
(***************************************************************************)
\* The files the host can name, with their text; any other path cannot be
\* opened
Files ==
    [ p \in { "tri.vert", "tri.frag", "empty.glsl" } |->
        CASE p = "tri.vert" -> "vs_ok"
          [] p = "tri.frag" -> "fs_ok"
          [] OTHER -> "" ]

VertexPaths == { "tri.vert", "empty.glsl", "missing.glsl" }

FragmentPaths == { "tri.frag", "missing.glsl" }

UniformNames == { "mvp", "tint" }

\* The texts the host loads from memory: a pair that links and one that does not
LoadedPairs == { pair \in ShaderPairs : CompileOk(pair.vs) /\ CompileOk(pair.fs) }

Shader_readFile(filepath) == IF filepath \in DOMAIN Files THEN Files[filepath] ELSE ""

\* A loadFromFile that releases the held program before it reads the files
Shader_loadFromFile_ReleasesFirst(sh, g, vertexPath, fragmentPath) ==
    LET vertexSource == Shader_readFile(vertexPath)
        fragmentSource == Shader_readFile(fragmentPath)
        rel == Shader_release(sh, g)
    IN  IF vertexSource = ""
        THEN [ sh  |-> [ rel.sh EXCEPT !.lastError =
                            << "Failed to read vertex shader file: ", vertexPath >> ],
               gl  |-> rel.gl, ret |-> FALSE ]
        ELSE IF fragmentSource = ""
        THEN [ sh  |-> [ rel.sh EXCEPT !.lastError =
                            << "Failed to read fragment shader file: ", fragmentPath >> ],
               gl  |-> rel.gl, ret |-> FALSE ]
        ELSE Shader_loadFromSource(sh, g, vertexSource, fragmentSource)

Shader_loadFromFile(sh, g, vertexPath, fragmentPath) ==
    LET vertexSource == Shader_readFile(vertexPath)
        fragmentSource == Shader_readFile(fragmentPath)
    IN  IF vertexSource = ""
        THEN [ sh  |-> [ sh EXCEPT !.lastError =
                            << "Failed to read vertex shader file: ", vertexPath >> ],
               gl  |-> g, ret |-> FALSE ]
        ELSE IF fragmentSource = ""
        THEN [ sh  |-> [ sh EXCEPT !.lastError =
                            << "Failed to read fragment shader file: ", fragmentPath >> ],
               gl  |-> g, ret |-> FALSE ]
        ELSE Shader_loadFromSource(sh, g, vertexSource, fragmentSource)

\* A moved-from std::unordered_map and std::string are left empty (what the
\* standard libraries in use do with them)
MovedFrom == [ programId |-> 0, cache |-> {}, lastError |-> <<>> ]

\* A move constructor that leaves the program id in the moved-from object
Shader_moveConstruct_LeavesId(otherSh) ==
    [ self |-> otherSh, other |-> [ MovedFrom EXCEPT !.programId = otherSh.programId ] ]

\* Shader(Shader&& other)
Shader_moveConstruct(otherSh) == [ self |-> otherSh, other |-> MovedFrom ]

\* operator=(Shader&& other), for this != &other
Shader_moveAssign(sh, otherSh, g) ==
    [ self |-> otherSh, other |-> MovedFrom, gl |-> Shader_release(sh, g).gl ]

\* Everything of the state but the Shader objects, the store and the last call
exceptShaders == << rendererVars, frameCount, steady, build, USE_CUBE_RENDER, made, other, cfg, cfgRet,
                    initConfig, ctx, ctxRet, jni, egl, proc >>

ShaderCall(op, ret) == [ op |-> op, ret |-> ret, reported |-> <<>>, delivered |-> <<>> ]

\* Shader slot;
ConstructShader(slot) ==
    /\ ~shaderObjs[slot].alive
    /\ shaderObjs' = [ shaderObjs EXCEPT ![slot] = [ alive |-> TRUE, obj |-> NewShader ] ]
    /\ gl' = GlBegin(gl)
    /\ last' = ShaderCall("Shader", <<>>)
    /\ UNCHANGED exceptShaders

LoadFromSource(slot, vertexSource, fragmentSource) ==
    LET r == Shader_loadFromSource(shaderObjs[slot].obj, GlBegin(gl),
                                   vertexSource, fragmentSource)
    IN  /\ shaderObjs[slot].alive
        /\ shaderObjs' = [ shaderObjs EXCEPT ![slot].obj = r.sh ]
        /\ gl' = r.gl
        /\ last' = ShaderCall("loadFromSource", << r.ret >>)
        /\ UNCHANGED exceptShaders

LoadFromFile(slot, vertexPath, fragmentPath) ==
    LET r == Shader_loadFromFile(shaderObjs[slot].obj, GlBegin(gl), vertexPath, fragmentPath)
    IN  /\ shaderObjs[slot].alive
        /\ shaderObjs' = [ shaderObjs EXCEPT ![slot].obj = r.sh ]
        /\ gl' = r.gl
        /\ last' = ShaderCall("loadFromFile", << r.ret >>)
        /\ UNCHANGED exceptShaders

ReleaseShader(slot) ==
    LET r == Shader_release(shaderObjs[slot].obj, GlBegin(gl))
    IN  /\ shaderObjs[slot].alive
        /\ shaderObjs' = [ shaderObjs EXCEPT ![slot].obj = r.sh ]
        /\ gl' = r.gl
        /\ last' = ShaderCall("release", <<>>)
        /\ UNCHANGED exceptShaders

\* Shader slot(std::move(from));
MoveConstructShader(slot, from) ==
    LET r == Shader_moveConstruct(shaderObjs[from].obj)
    IN  /\ ~shaderObjs[slot].alive /\ shaderObjs[from].alive
        /\ shaderObjs' = [ shaderObjs EXCEPT ![slot] = [ alive |-> TRUE, obj |-> r.self ],
                                             ![from].obj = r.other ]
        /\ gl' = GlBegin(gl)
        /\ last' = ShaderCall("Shader(Shader&&)", <<>>)
        /\ UNCHANGED exceptShaders

\* slot = std::move(from); nothing happens when the two are one object
MoveAssignShader(slot, from) ==
    LET r == Shader_moveAssign(shaderObjs[slot].obj, shaderObjs[from].obj, GlBegin(gl))
    IN  /\ shaderObjs[slot].alive /\ shaderObjs[from].alive
        /\ IF slot = from
           THEN shaderObjs' = shaderObjs /\ gl' = GlBegin(gl)
           ELSE /\ shaderObjs' = [ shaderObjs EXCEPT ![slot].obj = r.self,
                                                     ![from].obj = r.other ]
                /\ gl' = r.gl
        /\ last' = ShaderCall("operator=(Shader&&)", <<>>)
        /\ UNCHANGED exceptShaders

\* ~Shader()
DestroyShader(slot) ==
    LET r == Shader_release(shaderObjs[slot].obj, GlBegin(gl))
    IN  /\ shaderObjs[slot].alive
        /\ shaderObjs' = [ shaderObjs EXCEPT ![slot] = [ alive |-> FALSE, obj |-> r.sh ] ]
        /\ gl' = r.gl
        /\ last' = ShaderCall("~Shader", <<>>)
        /\ UNCHANGED exceptShaders

\* The uniform setters of Shader, the two overloads of setVec2, setVec3 and
\* setVec4 apart
Setters ==
    { "setBool", "setInt", "setFloat", "setVec2", "setVec2(x,y)", "setVec3",
      "setVec3(x,y,z)", "setVec4", "setVec4(x,y,z,w)", "setMat2", "setMat3", "setMat4" }

\* sh.<setter>(name, v) with a value v of the type the setter takes
Shader_set(setter, sh, g, name) ==
    CASE setter = "setBool"          -> Shader_setBool(sh, g, name, TRUE)
      [] setter = "setInt"           -> Shader_setInt(sh, g, name, 1)
      [] setter = "setFloat"         -> Shader_setFloat(sh, g, name, 1)
      [] setter = "setVec2"          -> Shader_setVec2(sh, g, name, <<1, 2>>)
      [] setter = "setVec2(x,y)"     -> Shader_setVec2xy(sh, g, name, 1, 2)
      [] setter = "setVec3"          -> Shader_setVec3(sh, g, name, <<1, 2, 3>>)
      [] setter = "setVec3(x,y,z)"   -> Shader_setVec3xyz(sh, g, name, 1, 2, 3)
      [] setter = "setVec4"          -> Shader_setVec4(sh, g, name, <<1, 2, 3, 4>>)
      [] setter = "setVec4(x,y,z,w)" -> Shader_setVec4xyzw(sh, g, name, 1, 2, 3, 4)
      [] setter = "setMat2"          -> Shader_setMat2(sh, g, name, Identity)
      [] setter = "setMat3"          -> Shader_setMat3(sh, g, name, Identity)
      [] setter = "setMat4"          -> Shader_setMat4(sh, g, name, Identity)

\* slot.<setter>(name, value)
SetUniform(slot, setter, name) ==
    LET r == Shader_set(setter, shaderObjs[slot].obj, GlBegin(gl), name)
    IN  /\ shaderObjs[slot].alive
        /\ shaderObjs' = [ shaderObjs EXCEPT ![slot].obj = r.sh ]
        /\ gl' = r.gl
        /\ last' = ShaderCall(setter, <<>>)
        /\ UNCHANGED exceptShaders

\* slot.use()
UseShader(slot) ==
    /\ shaderObjs[slot].alive
    /\ gl' = Shader_use(shaderObjs[slot].obj, GlBegin(gl))
    /\ last' = ShaderCall("use", <<>>)
    /\ UNCHANGED << shaderObjs, exceptShaders >>

\* slot.unuse()
UnuseShader(slot) ==
    /\ shaderObjs[slot].alive
    /\ gl' = Shader_unuse(shaderObjs[slot].obj, GlBegin(gl))
    /\ last' = ShaderCall("unuse", <<>>)
    /\ UNCHANGED << shaderObjs, exceptShaders >>

InitShaders == Constructed({ "TriangleRender" }) /\ HostIdle

NextShaders ==
    \E slot \in ShaderSlots :
        \/ ConstructShader(slot)
        \/ \E pair \in LoadedPairs : LoadFromSource(slot, pair.vs, pair.fs)
        \/ \E vertexPath \in VertexPaths, fragmentPath \in FragmentPaths :
               LoadFromFile(slot, vertexPath, fragmentPath)
        \/ ReleaseShader(slot)
        \/ \E from \in ShaderSlots : MoveConstructShader(slot, from)
        \/ \E from \in ShaderSlots : MoveAssignShader(slot, from)
        \/ DestroyShader(slot)
        \/ \E name \in UniformNames : SetUniform(slot, "setMat4", name)
        \/ UseShader(slot)
        \/ UnuseShader(slot)

SpecShaders == InitShaders /\ [][NextShaders]_vars

\* The Shader objects with every uniform setter, loaded from memory only
NextUniforms ==
    \E slot \in ShaderSlots :
        \/ ConstructShader(slot)
        \/ \E pair \in LoadedPairs : LoadFromSource(slot, pair.vs, pair.fs)
        \/ ReleaseShader(slot)
        \/ \E from \in ShaderSlots : MoveConstructShader(slot, from)
        \/ \E from \in ShaderSlots : MoveAssignShader(slot, from)
        \/ DestroyShader(slot)
        \/ \E setter \in Setters, name \in UniformNames : SetUniform(slot, setter, name)
        \/ UseShader(slot)
        \/ UnuseShader(slot)

SpecUniforms == InitShaders /\ [][NextUniforms]_vars

(***************************************************************************)
(* The order of the steps of initialize: the host makes a config of        *)
(* either type with any of the shader pairs and any of the geometries, and *)
(* initializes the renderer with it; it may clean up in between.           *)
(***************************************************************************)
OrderConfigs ==
    { MakeConfig(type, pair, params) :
          type \in ConfigTypes, pair \in ShaderPairs, params \in Parameters }

\* The host makes config and calls renderer->initialize(config)
InitializeMade(config) ==
    /\ Initialize(config)
    /\ cfg' = [ alive |-> TRUE, value |-> config ]
    /\ UNCHANGED << build, made, other, cfgRet, initConfig, ctx, ctxRet, sideVars >>

InitOrder == Constructed(CurrentVariants) /\ HostIdle

NextOrder ==
    \/ \E config \in OrderConfigs : InitializeMade(config)
    \/ Cleanup /\ UNCHANGED hostVars

SpecOrder == InitOrder /\ [][NextOrder]_vars

(***************************************************************************)
(* The JNI session (native_renderer.cpp): the Java side calls nativeInit,  *)
(* nativeRender, nativeResize, nativeCleanup and nativeGetRendererName in  *)
(* any order.  A handler is an operator on the pair s of the globals (s.j) *)
(* and the EGL implementation (s.e); the calls it makes are appended to    *)
(* s.j.calls.  The renderer behind g_renderer is seen through what the     *)
(* handlers use of it: whether it is there, whether it is Ready, and the   *)
(* size it was given.  The steps that the platform can fail are inputs.    *)
(***************************************************************************)
\* The handle eglGetDisplay(EGL_DEFAULT_DISPLAY) returns, and the
\* ANativeWindow of the Surface passed in
DefaultDisplay == 1

NativeWindow == 1

\* Where a nativeInit can fail for reasons outside the program
InitFailures ==
    { "none", "ANativeWindow_fromSurface", "eglGetDisplay", "eglInitialize",
      "eglChooseConfig", "eglCreateWindowSurface", "eglCreateContext", "eglMakeCurrent",
      "initialize" }

\* The sizes eglQuerySurface reports
SurfaceSizes == { << 800, 600 >> }

JniCall(s, call) == [ s EXCEPT !.j.calls = Append(@, call) ]

initEGL(s, failAt, size) ==
    LET display == IF failAt = "eglGetDisplay" THEN 0 ELSE DefaultDisplay
        s1 == JniCall([ s EXCEPT !.j.g_display = display ], <<"eglGetDisplay">>)
        s2 == JniCall([ s1 EXCEPT !.e.initialized = (@ \/ failAt # "eglInitialize") ],
                      <<"eglInitialize", display>>)
        s3 == JniCall(s2, <<"eglChooseConfig", display>>)
        surface == IF failAt = "eglCreateWindowSurface" THEN 0 ELSE FreshName(s3.e.surfaces)
        s4 == JniCall([ s3 EXCEPT !.j.g_surface = surface,
                                  !.e.surfaces = @ \cup ({ surface } \ { 0 }) ],
                      <<"eglCreateWindowSurface", display, s3.j.g_window>>)
        context == IF failAt = "eglCreateContext" THEN 0 ELSE FreshName(s4.e.contexts)
        s5 == JniCall([ s4 EXCEPT !.j.g_context = context,
                                  !.e.contexts = @ \cup ({ context } \ { 0 }) ],
                      <<"eglCreateContext", display>>)
        s6 == JniCall([ s5 EXCEPT !.e.current =
                            IF failAt = "eglMakeCurrent" THEN @ ELSE << surface, context >> ],
                      <<"eglMakeCurrent", display, surface, context>>)
        s7 == JniCall([ s6 EXCEPT !.j.g_width = size[1], !.j.g_height = size[2] ],
                      <<"eglQuerySurface", display, surface>>)
    IN  IF failAt = "eglGetDisplay" THEN [ s |-> s1, ret |-> FALSE ]
        ELSE IF failAt = "eglInitialize" THEN [ s |-> s2, ret |-> FALSE ]
        ELSE IF failAt = "eglChooseConfig" THEN [ s |-> s3, ret |-> FALSE ]
        ELSE IF failAt = "eglCreateWindowSurface" THEN [ s |-> s4, ret |-> FALSE ]
        ELSE IF failAt = "eglCreateContext" THEN [ s |-> s5, ret |-> FALSE ]
        ELSE IF failAt = "eglMakeCurrent" THEN [ s |-> s6, ret |-> FALSE ]
        ELSE [ s |-> s7, ret |-> TRUE ]

\* eglTerminate marks every surface and context of the display for deletion
terminateEGL(s) ==
    LET display == s.j.g_display
        s1 == JniCall([ s EXCEPT !.e.current = << 0, 0 >> ],
                      <<"eglMakeCurrent", display, 0, 0>>)
        s2 == IF s1.j.g_context # 0
              THEN JniCall([ s1 EXCEPT !.e.contexts = @ \ { s1.j.g_context },
                                       !.j.g_context = 0 ],
                           <<"eglDestroyContext", display, s1.j.g_context>>)
              ELSE s1
        s3 == IF s2.j.g_surface # 0
              THEN JniCall([ s2 EXCEPT !.e.surfaces = @ \ { s2.j.g_surface },
                                       !.j.g_surface = 0 ],
                           <<"eglDestroySurface", display, s2.j.g_surface>>)
              ELSE s2
        s4 == JniCall([ s3 EXCEPT !.e.initialized = FALSE, !.e.surfaces = {},
                                  !.e.contexts = {}, !.j.g_display = 0 ],
                      <<"eglTerminate", display>>)
    IN  IF display # 0 THEN s4 ELSE s

initRenderer(s, failAt) ==
    LET created == RenderFactory_createByName("triangle")
        s1 == [ s EXCEPT !.j.g_renderer =
                    [ NoJniRenderer EXCEPT !.present = (created # "null") ] ]
        s2 == JniCall(s1, <<"setErrorCallback">>)
        s3 == JniCall([ s2 EXCEPT !.j.g_renderer.initialized = (failAt # "initialize") ],
                      <<"initialize">>)
        s4 == JniCall([ s3 EXCEPT !.j.g_renderer.width = s3.j.g_width,
                                  !.j.g_renderer.height = s3.j.g_height ],
                      <<"resize", s3.j.g_width, s3.j.g_height>>)
        s5 == [ s4 EXCEPT !.j.g_projectionMatrix =
                    Perspective(Aspect(s4.j.g_width, s4.j.g_height)) ]
    IN  IF created = "null" THEN [ s |-> s1, ret |-> FALSE ]
        ELSE IF failAt = "initialize" THEN [ s |-> s3, ret |-> FALSE ]
        ELSE [ s |-> s5, ret |-> TRUE ]

cleanupRenderer(s) ==
    IF s.j.g_renderer.present
    THEN JniCall([ s EXCEPT !.j.g_renderer = NoJniRenderer ], <<"cleanup">>)
    ELSE s

\* if (g_window) { ANativeWindow_release(g_window); g_window = nullptr; }
ReleaseWindowIfHeld(s) ==
    IF s.j.g_window # 0
    THEN JniCall([ s EXCEPT !.e.windowRefs = @ - 1, !.j.g_window = 0 ],
                 <<"ANativeWindow_release", s.j.g_window>>)
    ELSE s

\* ANativeWindow_release(g_window); g_window = nullptr;
ReleaseWindow(s) ==
    JniCall([ s EXCEPT !.e.windowRefs = @ - 1, !.j.g_window = 0 ],
            <<"ANativeWindow_release", s.j.g_window>>)

JniReturn(s, op, ret) == [ s EXCEPT !.j.op = op, !.j.ret = ret ]

nativeInit(s, failAt, size) ==
    LET s0 == IF s.j.g_initialized
              THEN ReleaseWindowIfHeld(terminateEGL(cleanupRenderer(s)))
              ELSE s
        window == IF failAt = "ANativeWindow_fromSurface" THEN 0 ELSE NativeWindow
        s1 == JniCall([ s0 EXCEPT !.j.g_window = window,
                                  !.e.windowRefs = IF window # 0 THEN @ + 1 ELSE @ ],
                      <<"ANativeWindow_fromSurface">>)
        egl1 == initEGL(s1, failAt, size)
        rnd  == initRenderer(egl1.s, failAt)
    IN  IF window = 0 THEN JniReturn(s1, "nativeInit", "JNI_FALSE")
        ELSE IF ~egl1.ret THEN JniReturn(ReleaseWindow(egl1.s), "nativeInit", "JNI_FALSE")
        ELSE IF ~rnd.ret
        THEN JniReturn(ReleaseWindow(terminateEGL(rnd.s)), "nativeInit", "JNI_FALSE")
        ELSE JniReturn([ rnd.s EXCEPT !.j.g_initialized = TRUE, !.j.g_frameNumber = 0 ],
                       "nativeInit", "JNI_TRUE")

nativeRender(s) ==
    IF ~s.j.g_initialized \/ ~s.j.g_renderer.present
    THEN JniReturn(s, "nativeRender", "void")
    ELSE LET s1 == JniCall([ s EXCEPT !.j.g_frameNumber = @ + 1 ],
                           <<"render", s.j.g_width, s.j.g_height, s.j.g_frameNumber>>)
             s2 == JniCall(s1, <<"eglSwapBuffers", s1.j.g_display, s1.j.g_surface>>)
         IN  JniReturn(s2, "nativeRender", "void")

nativeResize(s, width, height) ==
    LET s1 == [ s EXCEPT !.j.g_width = width, !.j.g_height = height ]
        s2 == JniCall([ s1 EXCEPT !.j.g_renderer.width = width,
                                  !.j.g_renderer.height = height ],
                      <<"resize", width, height>>)
        s3 == [ s2 EXCEPT !.j.g_projectionMatrix = Perspective(Aspect(width, height)) ]
    IN  JniReturn(IF s1.j.g_renderer.present /\ s1.j.g_initialized THEN s3 ELSE s1,
                  "nativeResize", "void")

nativeCleanup(s) ==
    JniReturn([ ReleaseWindowIfHeld(terminateEGL(cleanupRenderer(s)))
                  EXCEPT !.j.g_initialized = FALSE ],
              "nativeCleanup", "void")

nativeGetRendererName(s) ==
    JniReturn(s, "nativeGetRendererName",
              IF s.j.g_renderer.present THEN "TriangleRender" ELSE "No Renderer")

\* Everything of the state but the globals and the EGL implementation
exceptJni == << rendererVars, gl, last, frameCount, steady, build, USE_CUBE_RENDER, made, other, cfg, cfgRet,
                initConfig, ctx, ctxRet, shaderObjs, proc >>

\* The state a handler starts from: the calls of the previous one are gone
JniEntry == [ j |-> [ jni EXCEPT !.calls = <<>> ], e |-> egl ]

JniStep(s) == jni' = s.j /\ egl' = s.e /\ UNCHANGED exceptJni

NativeInit(failAt, size) ==
    /\ Cardinality(egl.surfaces) < MaxEglLive
    /\ Cardinality(egl.contexts) < MaxEglLive
    /\ JniStep(nativeInit(JniEntry, failAt, size))

NativeRender == jni.g_frameNumber < MaxJniFrames /\ JniStep(nativeRender(JniEntry))

NativeResize(width, height) ==
    /\ jni' = nativeResize(JniEntry, width, height).j
    /\ UNCHANGED << egl, exceptJni >>

NativeCleanup ==
    /\ jni' = nativeCleanup(JniEntry).j
    /\ egl' = nativeCleanup(JniEntry).e
    /\ UNCHANGED exceptJni

NativeGetRendererName ==
    /\ jni' = nativeGetRendererName(JniEntry).j
    /\ UNCHANGED << egl, exceptJni >>

InitJni ==
    /\ Constructed({ "TriangleRender" })
    /\ build \in SUBSET CurrentVariants
    /\ PlainFlags
    /\ HostAtRest

NextJni ==
    \/ \E failAt \in InitFailures, size \in SurfaceSizes : NativeInit(failAt, size)
    \/ NativeRender
    \/ \E width \in Widths, height \in Heights : NativeResize(width, height)
    \/ NativeCleanup
    \/ NativeGetRendererName

SpecJni == InitJni /\ [][NextJni]_vars

(***************************************************************************)
(* main (main.cpp) and its threads, and a ThreadTestClass object           *)
(* (ThreadPool/multi-thread.hpp) made and destroyed beside it.  main moves *)
(* from statement to statement (proc.pc); the threads run their loops in   *)
(* between; whether Application::initialize succeeds is an input.          *)
(***************************************************************************)
\* for (int i = 0; i < 10; i++) sleep_for(1s): the sleeps of a thread function
Iterations == 10

\* std::thread t(f): the thread starts with its whole loop to run
StartedThread == [ object |-> "joinable", left |-> Iterations ]

\* ~thread() on a joinable std::thread calls std::terminate
Thread_destroy(t) == [ t EXCEPT !.object = "destroyed" ]

Terminates(t) == t.object = "joinable"

\* Everything of the state but the process
exceptProc == << rendererVars, gl, last, frameCount, steady, build, USE_CUBE_RENDER, made, other, cfg, cfgRet,
                 initConfig, ctx, ctxRet, shaderObjs, jni, egl >>

Running == proc.exit = "running"

\* std::thread t1(ThreadTestClass::ThreadInstance1);
StartT1 ==
    /\ Running /\ proc.pc = "main"
    /\ proc' = [ proc EXCEPT !.pc = "braces", !.t1 = StartedThread ]
    /\ UNCHANGED exceptProc

\* { std::thread t3_DetechTest(...); t3_DetechTest.detach(); }
DetachT3 ==
    /\ Running /\ proc.pc = "braces"
    /\ proc' = [ proc EXCEPT !.pc = "app",
                             !.t3_DetechTest = [ object |-> "destroyed", left |-> Iterations ] ]
    /\ UNCHANGED exceptProc

\* Application app(800, 600, ...); if (!app.initialize()) { ...; return -1; }
\* The return destroys app and then t1
InitializeApplication(ok) ==
    /\ Running /\ proc.pc = "app"
    /\ proc' = IF ok
               THEN [ proc EXCEPT !.pc = "run" ]
               ELSE [ proc EXCEPT !.pc = "returned",
                                  !.t1 = Thread_destroy(@),
                                  !.exit = IF Terminates(proc.t1)
                                           THEN "std::terminate" ELSE "-1" ]
    /\ UNCHANGED exceptProc

\* app.run() returns when the window is closed
RunApplication ==
    /\ Running /\ proc.pc = "run"
    /\ proc' = [ proc EXCEPT !.pc = "join" ]
    /\ UNCHANGED exceptProc

\* t1.join(); return 0;  join returns once the thread function has returned
JoinT1AndReturn ==
    /\ Running /\ proc.pc = "join"
    /\ proc.t1.left = 0
    /\ proc' = [ proc EXCEPT !.pc = "returned",
                             !.t1 = [ object |-> "destroyed", left |-> 0 ],
                             !.exit = "0" ]
    /\ UNCHANGED exceptProc

\* One sleep of the loop of a thread of main
SleepT1 ==
    /\ Running /\ proc.t1.object = "joinable" /\ proc.t1.left > 0
    /\ proc' = [ proc EXCEPT !.t1.left = @ - 1 ]
    /\ UNCHANGED exceptProc

SleepT3 ==
    /\ Running /\ proc.t3_DetechTest.object = "destroyed" /\ proc.t3_DetechTest.left > 0
    /\ proc' = [ proc EXCEPT !.t3_DetechTest.left = @ - 1 ]
    /\ UNCHANGED exceptProc

\* ThreadTestClass::ThreadTestClass(): one thread is pushed to threads
ConstructThreadTest ==
    /\ Running /\ proc.threadTest = "none"
    /\ proc' = [ proc EXCEPT !.threadTest = "alive", !.threads = << StartedThread >> ]
    /\ UNCHANGED exceptProc

\* One sleep of ThreadInstance2_ParamTransform
SleepWorker ==
    /\ Running /\ proc.threadTest \in { "alive", "destroying" }
    /\ proc.threads[1].left > 0
    /\ proc' = [ proc EXCEPT !.threads[1].left = @ - 1 ]
    /\ UNCHANGED exceptProc

\* ThreadTestClass::~ThreadTestClass() is entered: it joins the joinable threads
EnterThreadTestDestructor ==
    /\ Running /\ proc.threadTest = "alive"
    /\ proc' = [ proc EXCEPT !.threadTest = "destroying" ]
    /\ UNCHANGED exceptProc

\* The joins have returned; the vector, and with it the threads, are destroyed
LeaveThreadTestDestructor ==
    /\ Running /\ proc.threadTest = "destroying"
    /\ \A i \in DOMAIN proc.threads :
           proc.threads[i].object = "joinable" => proc.threads[i].left = 0
    /\ proc' = [ proc EXCEPT
                   !.threadTest = "destroyed",
                   !.threads = [ i \in DOMAIN proc.threads |->
                                   Thread_destroy(proc.threads[i]) ] ]
    /\ UNCHANGED exceptProc

InitMain == Constructed({ "TriangleRender" }) /\ HostIdle

NextMain ==
    \/ StartT1
    \/ DetachT3
    \/ \E ok \in BOOLEAN : InitializeApplication(ok)
    \/ RunApplication
    \/ JoinT1AndReturn
    \/ SleepT1
    \/ SleepT3
    \/ ConstructThreadTest
    \/ SleepWorker
    \/ EnterThreadTestDestructor
    \/ LeaveThreadTestDestructor

SpecMain == InitMain /\ [][NextMain]_vars

(***************************************************************************)
(* Vocabulary of the properties.                                           *)
(***************************************************************************)
\* The three handles name live GL objects of their own kind
HandlesValid ==
    /\ m_shader.programId # 0 /\ m_shader.programId \in gl.programs
    /\ m_vao # 0 /\ m_vao \in gl.vaos
    /\ m_vbo # 0 /\ m_vbo \in gl.buffers

\* The renderer holds nothing: every handle is 0 and it is not initialized
Clean ==
    /\ m_vao = 0 /\ m_vbo = 0 /\ m_shader.programId = 0
    /\ ~m_initialized

\* No GL object is live
StoreEmpty ==
    gl.vaos = {} /\ gl.buffers = {} /\ gl.programs = {} /\ gl.shaders = {}

\* The GL calls of the last operation whose function is one of names
CallsTo(names) == SelectSeq(gl.calls, LAMBDA c : c[1] \in names)

DeleteCalls ==
    {"glDeleteVertexArrays", "glDeleteBuffers", "glDeleteProgram", "glDeleteShader"}

\* The concrete config type the renderer at hand accepts
ExpectedType ==
    IF variant = "TriangleRender" THEN "TriangleConfig"
    ELSE IF variant = "CubeRender" THEN "CubeConfig"
    ELSE "RenderConfig"

AllConfigs == Configs \cup DraftConfigs

\* Both texts compile and the pair links
ShadersGood(c) == CompileOk(c.vs) /\ CompileOk(c.fs) /\ LinkOk(c.vs, c.fs)

\* Both texts are there and compilation or linking fails
ShadersFail(c) == c.vs # "" /\ c.fs # "" /\ ~ShadersGood(c)

\* The driver's diagnostic for the first step of c that fails
Diagnostic(c) ==
    IF ~CompileOk(c.vs) THEN ShaderInfoLog(c.vs)
    ELSE IF ~CompileOk(c.fs) THEN ShaderInfoLog(c.fs)
    ELSE ProgramInfoLog(c.vs, c.fs)

\* The last operation reported exactly one error, of this kind
ReportedOnly(l, kind) == Len(l.reported) = 1 /\ l.reported[1].kind = kind

(***************************************************************************)
(* C1..C5                                                                  *)
(***************************************************************************)
\* C1: whenever the renderer is initialized, its shader program, vertex
\* array and vertex buffer handles are all valid, also after a failed
\* initialize on a Ready renderer.
C1_InitializedHasValidHandles == m_initialized => HandlesValid

\* C2: initialize is all-or-nothing: when initialize returns false on a
\* renderer that was Uninitialized, the renderer holds no GPU resource and
\* is still Uninitialized.
C2_InitializeAllOrNothing ==
    [][ (last'.op = "initialize" /\ ~m_initialized /\ Clean /\ last'.ret = <<FALSE>>)
            => (/\ ~m_initialized'
                /\ m_shader'.programId = 0 /\ m_vao' = 0 /\ m_vbo' = 0
                /\ gl'.programs = gl.programs /\ gl'.shaders = gl.shaders
                /\ gl'.vaos = gl.vaos /\ gl'.buffers = gl.buffers) ]_vars

\* C3: N successful renders after an initialize that found the angle at 0
\* leave the angle at (N * rotationSpeed) mod 360, a value in [0, 360).
C3_AngleIsFramesTimesSpeedMod360 ==
    steady => /\ m_currentAngle = (frameCount * m_rotationSpeed) % 360
              /\ m_currentAngle >= 0 /\ m_currentAngle < 360

\* C4: resize with height 0 is rejected or special-cased: no resize
\* returns true having stored a projection whose aspect divides by zero.
C4_ResizeRejectsZeroHeight ==
    (last.op = "resize" /\ last.ret = <<TRUE>>)
        => (m_projection.kind = "perspective" => m_projection.aspect.tag = "finite")

\* C5: cleanup on a Ready renderer releases each resource with the delete
\* operation of its kind, zeroes the three handles and clears initialized.
C5_CleanupReleasesEachResource ==
    [][ (last'.op = "cleanup" /\ m_initialized /\ HandlesValid)
            => (/\ gl'.calls = << <<"glDeleteVertexArrays", m_vao>>,
                                  <<"glDeleteBuffers", m_vbo>>,
                                  <<"glDeleteProgram", m_shader.programId>> >>
                /\ m_vao \notin gl'.vaos
                /\ m_vbo \notin gl'.buffers
                /\ m_shader.programId \notin gl'.programs
                /\ m_vao' = 0 /\ m_vbo' = 0 /\ m_shader'.programId = 0
                /\ ~m_initialized') ]_vars

(***************************************************************************)
(* C6..C10                                                                 *)
(***************************************************************************)
\* C6: cleanup is idempotent and never an error: a cleanup directly after
\* a cleanup changes nothing of the renderer or of the live GL objects, and
\* a cleanup on a renderer that is already clean issues no GL delete call.
C6_CleanupIdempotent ==
    [][ last'.op = "cleanup"
            => (/\ last'.reported = <<>>
                /\ Clean'
                /\ Clean => (/\ CallsTo(DeleteCalls)' = <<>>
                             /\ rendererVars' = rendererVars)
                /\ last.op = "cleanup"
                       => (/\ rendererVars' = rendererVars
                           /\ gl'.calls = <<>>
                           /\ [ gl' EXCEPT !.calls = <<>> ] = [ gl EXCEPT !.calls = <<>> ]
                           /\ frameCount' = frameCount /\ steady' = steady)) ]_vars

\* C7: render on an Uninitialized renderer returns false, reports exactly
\* one error, of kind InitializationFailed, and hands it to the registered
\* callback exactly once.
C7_RenderUninitializedFails ==
    [][ (last'.op = "render" /\ ~m_initialized)
            => (/\ last'.ret = <<FALSE>>
                /\ ReportedOnly(last', "InitializationFailed")
                /\ m_errorCallback # "none"
                       => (/\ Len(last'.delivered) = 1
                           /\ last'.delivered[1].cb = m_errorCallback
                           /\ last'.delivered[1].kind = "InitializationFailed")
                /\ gl'.calls = <<>>
                /\ ~m_initialized') ]_vars

\* C8: initialize with a config of another renderer's type returns false,
\* reports InitializationFailed, leaves initialized and every handle as
\* they were and makes no GL call; an initialize with a valid config of the
\* right type directly after it returns true and makes the renderer Ready.
C8_WrongConfigTypeRejected ==
    [][ last'.op = "initialize"
            => \A c \in Configs :
                /\ (c.type # ExpectedType /\ Initialize(c))
                       => (/\ last'.ret = <<FALSE>>
                           /\ ReportedOnly(last', "InitializationFailed")
                           /\ m_initialized' = m_initialized
                           /\ m_shader' = m_shader /\ m_vao' = m_vao /\ m_vbo' = m_vbo
                           /\ gl'.calls = <<>>
                           /\ [ gl' EXCEPT !.calls = <<>> ] = [ gl EXCEPT !.calls = <<>> ])
                /\ (/\ c.type = ExpectedType /\ ShadersGood(c) /\ c.nverts > 0
                    /\ last.op = "initialize"
                    /\ ReportedOnly(last, "InitializationFailed")
                    /\ Initialize(c))
                       => (last'.ret = <<TRUE>> /\ m_initialized' /\ HandlesValid') ]_vars

\* C9: initialize with a config of the right type, good shaders and no
\* vertices returns false, reports exactly BufferCreationFailed, generates
\* no vertex array or buffer and leaves the two handles, the vertex count
\* and initialized as they were (0, 0 and false on an Uninitialized one).
C9_EmptyVerticesRejected ==
    [][ last'.op = "initialize"
            => \A c \in AllConfigs :
                (c.type = ExpectedType /\ ShadersGood(c) /\ c.nverts = 0 /\ Initialize(c))
                    => (/\ last'.ret = <<FALSE>>
                        /\ ReportedOnly(last', "BufferCreationFailed")
                        /\ CallsTo({"glGenVertexArrays", "glGenBuffers"})' = <<>>
                        /\ gl'.vaos = gl.vaos /\ gl'.buffers = gl.buffers
                        /\ m_vao' = m_vao /\ m_vbo' = m_vbo
                        /\ m_vertexCount' = m_vertexCount
                        /\ m_initialized' = m_initialized
                        /\ Clean => (m_vao' = 0 /\ m_vbo' = 0 /\ ~m_initialized')) ]_vars

\* C10: when a shader compile or the program link fails during initialize,
\* initialize returns false, reports ShaderCompilationFailed with the
\* driver's diagnostic text in the message, every shader and program object
\* created by the attempt is deleted again and the stored program is 0.
C10_ShaderFailureRetainsNothing ==
    [][ last'.op = "initialize"
            => \A c \in AllConfigs :
                (c.type = ExpectedType /\ ShadersFail(c) /\ Initialize(c))
                    => (/\ last'.ret = <<FALSE>>
                        /\ ReportedOnly(last', "ShaderCompilationFailed")
                        /\ \E i \in DOMAIN last'.reported[1].message :
                               last'.reported[1].message[i] = Diagnostic(c)
                        /\ gl'.shaders \subseteq gl.shaders
                        /\ gl'.programs \subseteq gl.programs
                        /\ m_shader'.programId = 0) ]_vars

\* C6 reached: a cleanup that found a renderer already cleaned after use
C6_Witness ==
    /\ last.op = "cleanup" /\ gl.calls = <<>>
    /\ Clean /\ frameCount > 0

\* C7 reached: render refused after the renderer was used and cleaned,
\* the callback having received the one error
C7_Witness ==
    /\ last.op = "render" /\ last.ret = <<FALSE>>
    /\ ~m_initialized /\ frameCount > 0
    /\ m_errorCallback # "none"
    /\ Len(last.delivered) = 1
    /\ last.delivered[1].kind = "InitializationFailed"

\* C8 reached: an initialize refused for its config type on a clean renderer
C8_Witness ==
    /\ last.op = "initialize" /\ last.ret = <<FALSE>>
    /\ ReportedOnly(last, "InitializationFailed")
    /\ Clean /\ StoreEmpty /\ gl.calls = <<>>

\* C9 reached: an initialize refused for empty vertices, shaders compiled
C9_Witness ==
    /\ last.op = "initialize" /\ last.ret = <<FALSE>>
    /\ ReportedOnly(last, "BufferCreationFailed")
    /\ ~m_initialized /\ m_vao = 0 /\ m_vbo = 0
    /\ CallsTo({"glLinkProgram"}) # <<>>

(***************************************************************************)
(* C11..C20                                                                *)
(***************************************************************************)
\* C19: withFrameNumber and withDeltaTime leave the receiver as it was
\* when they return, and return a context that differs from it in the
\* updated field only (it is the returned context that the host of
\* withFrameNumber then holds); a new context has frame number 0; and the
\* context made by withFrameNumber(n + 1) from a context at frame n (n + 1
\* wrapping at 2^64) is at a frame other than n.
C19_ContextUpdatesArePure ==
    [][ /\ ctxRet'.op \in {"withFrameNumber", "withDeltaTime"}
               => ctxRet'.receiver = ctx
        /\ ctxRet'.op = "withFrameNumber"
               => /\ ctxRet'.ret = [ ctx EXCEPT !.frameNumber = ctxRet'.frame ]
                  /\ ctx' = ctxRet'.ret
                  /\ ctxRet'.frame = Inc64(ctx.frameNumber)
                         => ctxRet'.ret.frameNumber # ctx.frameNumber
        /\ ctxRet'.op = "withDeltaTime"
               => /\ ctxRet'.ret = [ ctx EXCEPT !.deltaTime = ctxRet'.dt ]
                  /\ ctx' = ctx
        /\ ctxRet'.op = "RenderContext" => ctx'.frameNumber = Zero64 ]_vars

\* C19 reached: the context at the last frame number has been asked for its
\* successor; the call left the receiver at the last frame number and the
\* context returned, now held, is at frame 0 with the other fields copied
C19_Witness ==
    /\ ctxRet.op = "withFrameNumber"
    /\ ctxRet.receiver.frameNumber = Max64
    /\ ctxRet.frame = Inc64(Max64)
    /\ ctxRet.ret.frameNumber = Zero64
    /\ ctx = ctxRet.ret
    /\ ctx.deltaTime = 16 /\ ctx.width = 0

\* C20: every builder of TriangleConfig, CubeConfig and RenderConfig stores
\* the value it is given as it is (the empty shader text and the empty
\* vertex list included), so that the matching accessor returns it; it
\* changes no other field of the config, and it returns the object it was
\* called on.
C20_BuildersRoundTrip ==
    [][ /\ \A v \in VertexLists :
               SetVertices(v)
                   => /\ Config_vertices(cfg'.value) = v
                      /\ cfg'.value = [ cfg.value EXCEPT !.vertices = v ]
                      /\ cfgRet'.ret = "this"
        /\ \A c \in ClearColors :
               SetClearColor(c)
                   => /\ Config_clearColor(cfg'.value) = c
                      /\ cfg'.value = [ cfg.value EXCEPT !.clearColor = c ]
                      /\ cfgRet'.ret = "this"
        /\ \A speed \in Speeds :
               SetRotationSpeed(speed)
                   => /\ Config_rotationSpeed(cfg'.value) = speed
                      /\ cfg'.value = [ cfg.value EXCEPT !.rotationSpeed = speed ]
                      /\ cfgRet'.ret = "this"
        /\ \A source \in VertexSources :
               SetVertexShaderSource(source)
                   => /\ Config_vertexShaderSource(cfg'.value) = source
                      /\ cfg'.value = [ cfg.value EXCEPT !.vs = source ]
                      /\ cfgRet'.ret = "this"
        /\ \A source \in FragmentSources :
               SetFragmentShaderSource(source)
                   => /\ Config_fragmentShaderSource(cfg'.value) = source
                      /\ cfg'.value = [ cfg.value EXCEPT !.fs = source ]
                      /\ cfgRet'.ret = "this"
        /\ \A data \in VertexLists :
               SetVertexData(data)
                   => /\ Config_vertices(cfg'.value) = data
                      /\ cfg'.value = [ cfg.value EXCEPT !.vertices = data ]
                      /\ cfgRet'.ret = "this"
        /\ \A c \in ClearColors :
               SetClearColor4(c[1], c[2], c[3], c[4])
                   => /\ Config_clearColor(cfg'.value) = c
                      /\ cfg'.value = [ cfg.value EXCEPT !.clearColor = c ]
                      /\ cfgRet'.ret = "this"
        /\ \A speed \in Speeds :
               SetRotationSpeedOfRenderConfig(speed)
                   => /\ Config_rotationSpeed(cfg'.value) = speed
                      /\ cfg'.value = [ cfg.value EXCEPT !.rotationSpeed = speed ]
                      /\ cfgRet'.ret = "this"
        /\ cfgRet'.op \in {"setVertices", "setClearColor", "setRotationSpeed",
                           "setVertexShaderSource", "setFragmentShaderSource",
                           "setVertexData"}
               => /\ cfg'.alive = cfg.alive
                  /\ cfg'.value.type = cfg.value.type ]_vars

\* C20 reached: a TriangleConfig whose vertex list was emptied by
\* setVertices after its speed and colour had been set
C20_Witness ==
    /\ cfg.alive /\ cfg.value.type = "TriangleConfig"
    /\ cfgRet = [ op |-> "setVertices", ret |-> "this" ]
    /\ Config_vertices(cfg.value) = <<>>
    /\ Config_rotationSpeed(cfg.value) = 180
    /\ Config_clearColor(cfg.value) = DarkGray
    /\ Config_vertexShaderSource(cfg.value) = "vs_ok"

\* C17: the renderer keeps copies of what it read from the config: as long
\* as it is initialized its clear colour, speed and vertex count are those
\* the config had at the last successful initialize; a builder call on the
\* config or its destruction changes nothing of the renderer or of the GL
\* store; and initialize leaves the config as it was.
C17_RendererKeepsNoReferenceToConfig ==
    [][ /\ InitializeWithConfig
               => /\ cfg' = cfg
                  /\ last'.ret = <<TRUE>>
                         => /\ m_clearColor' = Config_clearColor(cfg.value)
                            /\ m_rotationSpeed' = Config_rotationSpeed(cfg.value)
                            /\ m_vertexCount' = Len(Config_vertices(cfg.value))
        /\ m_initialized'
               => /\ m_clearColor' = initConfig'.clearColor
                  /\ m_rotationSpeed' = initConfig'.rotationSpeed
                  /\ m_vertexCount' = initConfig'.nverts
        /\ cfg' # cfg
               => /\ rendererVars' = rendererVars
                  /\ gl' = gl ]_vars

\* C17 reached: the renderer was initialized at speed 180 and the config
\* has since been set back to speed 1 and another colour
C17_Witness ==
    /\ m_initialized /\ m_rotationSpeed = 180 /\ m_clearColor = DarkBlue
    /\ cfg.alive /\ cfgRet.op = "setRotationSpeed"
    /\ Config_rotationSpeed(cfg.value) = 1
    /\ Config_clearColor(cfg.value) = DarkGray

\* C13: a render refused for want of initialization changes nothing of the
\* renderer (angle, handles, clear colour, speed, vertex count) or of the GL
\* objects, and makes no GL call, so neither clears nor draws; an initialize
\* with a valid config of the renderer's type directly after it returns
\* true and makes the renderer Ready, and a render directly after a
\* successful initialize returns true.
C13_RefusedRenderChangesNothing ==
    [][ /\ (last'.op = "render" /\ ~m_initialized)
               => /\ last'.ret = <<FALSE>>
                  /\ rendererVars' = rendererVars
                  /\ gl'.calls = <<>>
                  /\ gl'.vaos = gl.vaos /\ gl'.buffers = gl.buffers
                  /\ gl'.programs = gl.programs /\ gl'.shaders = gl.shaders
        /\ (last.op = "render" /\ last.ret = <<FALSE>> /\ last'.op = "initialize")
               => \A c \in Configs :
                      (/\ c.type = ExpectedType /\ ShadersGood(c) /\ c.nverts > 0
                       /\ Initialize(c))
                          => (last'.ret = <<TRUE>> /\ m_initialized')
        /\ (last.op = "initialize" /\ last.ret = <<TRUE>> /\ last'.op = "render")
               => last'.ret = <<TRUE>> ]_vars

\* C13 reached: a render refused on a renderer that had turned before it
\* was cleaned, with no callback registered
C13_Witness ==
    /\ last.op = "render" /\ last.ret = <<FALSE>>
    /\ ~m_initialized /\ m_currentAngle = 360 /\ m_rotationSpeed = 180
    /\ m_errorCallback = "none"
    /\ gl.calls = <<>>

\* C14: a render on a Ready renderer returns true and reports nothing
\* whatever the context (viewport without width or with negative height,
\* any delta time, any frame number), makes exactly one draw call, and
\* changes the angle only: initialized, the three handles, the clear colour,
\* the speed, the vertex count and the live GL objects stay as they were.
C14_ReadyRenderDrawsOnce ==
    [][ (last'.op = "render" /\ m_initialized)
            => /\ last'.ret = <<TRUE>> /\ last'.reported = <<>>
               /\ Len(SelectSeq(gl'.calls, LAMBDA c : c[1] = "glDrawArrays")) = 1
               /\ m_initialized'
               /\ m_shader'.programId = m_shader.programId
               /\ m_vao' = m_vao /\ m_vbo' = m_vbo
               /\ m_clearColor' = m_clearColor
               /\ m_rotationSpeed' = m_rotationSpeed
               /\ m_vertexCount' = m_vertexCount
               /\ m_projection' = m_projection
               /\ m_errorCallback' = m_errorCallback
               /\ m_currentAngle' = NextAngle(m_currentAngle, m_rotationSpeed)
               /\ gl'.vaos = gl.vaos /\ gl'.buffers = gl.buffers
               /\ gl'.programs = gl.programs /\ gl'.shaders = gl.shaders ]_vars

\* C14 reached: the second frame of a Ready CubeRender was drawn
C14_Witness ==
    /\ variant = "CubeRender" /\ m_initialized
    /\ last.op = "render" /\ last.ret = <<TRUE>>
    /\ frameCount = 2
    /\ Len(CallsTo({"glDrawArrays"})) = 1

\* The angle after n renders at this speed from angle 0
RECURSIVE AngleAfter(_, _)
AngleAfter(n, speed) ==
    IF n = 0 THEN 0 ELSE NextAngle(AngleAfter(n - 1, speed), speed)

\* C18: the angle is a function of the speed of the config and of the
\* number of renders since the initialize that found it at 0, whatever the
\* delta time, frame number, viewport and projection of the contexts
\* rendered: each render advances it by the speed.
C18_AngleIndependentOfContext ==
    steady => m_currentAngle = AngleAfter(frameCount, m_rotationSpeed)

\* C18 reached: two frames were drawn at speed 180
C18_Witness ==
    /\ steady /\ frameCount = 2 /\ m_rotationSpeed = 180
    /\ m_currentAngle = 360 /\ last.op = "render"

\* C16: the renderer has one callback slot.  setErrorCallback(c) puts c in
\* the slot and changes nothing else; every operation that returns false
\* reports exactly one error, which goes exactly once to the callback in
\* the slot and to no other, so never to a callback that was replaced; with
\* the slot empty it still returns false and nothing is delivered; and an
\* operation that does not fail delivers nothing.
C16_OneCallbackReceivesEveryError ==
    [][ /\ \A c \in {FirstCallback, SecondCallback, "none"} :
               SetErrorCallback(c)
                   => /\ m_errorCallback' = c
                      /\ << m_shader, m_vao, m_vbo, m_projection, m_clearColor,
                            m_rotationSpeed, m_currentAngle, m_vertexCount,
                            m_initialized >>'
                             = << m_shader, m_vao, m_vbo, m_projection, m_clearColor,
                                  m_rotationSpeed, m_currentAngle, m_vertexCount,
                                  m_initialized >>
                      /\ gl'.vaos = gl.vaos /\ gl'.buffers = gl.buffers
                      /\ gl'.programs = gl.programs /\ gl'.shaders = gl.shaders
                      /\ gl'.calls = <<>>
                      /\ last'.delivered = <<>>
        /\ (last'.op \in {"initialize", "render"} /\ last' # last)
               => /\ m_errorCallback' = m_errorCallback
                  /\ last'.ret = <<FALSE>>
                         => /\ Len(last'.reported) = 1
                            /\ IF m_errorCallback = "none"
                               THEN last'.delivered = <<>>
                               ELSE /\ Len(last'.delivered) = 1
                                    /\ last'.delivered[1].cb = m_errorCallback
                                    /\ last'.delivered[1].kind = last'.reported[1].kind
                                    /\ last'.delivered[1].message
                                           = last'.reported[1].message
                  /\ last'.ret = <<TRUE>>
                         => last'.reported = <<>> /\ last'.delivered = <<>> ]_vars

\* C16 reached: the second callback, registered in place of the first,
\* received the error of a failed shader compilation
C16_Witness ==
    /\ m_errorCallback = SecondCallback
    /\ last.op = "initialize" /\ last.ret = <<FALSE>>
    /\ Len(last.delivered) = 1
    /\ last.delivered[1].cb = SecondCallback
    /\ last.delivered[1].kind = "ShaderCompilationFailed"

\* The variant each identifier stands for
VariantOfType(type) ==
    IF type = "Triangle" THEN "TriangleRender"
    ELSE IF type = "Cube" THEN "CubeRender" ELSE "null"

VariantOfName(typeName) ==
    IF typeName = "triangle" THEN "TriangleRender"
    ELSE IF typeName = "cube" THEN "CubeRender" ELSE "null"

\* The members of a renderer (in the order of rendererVars) are those of an
\* Uninitialized renderer of this class
Uninitialized(state, class) ==
    /\ state[1] = class
    /\ state[2].programId = 0 /\ state[3] = 0 /\ state[4] = 0
    /\ state[8] = 0
    /\ state[10] = FALSE

\* The two renderers hold no handle of the same kind in common
NoSharedHandle ==
    (other.present /\ variant # NullRenderer)
        => /\ m_vao # 0 => m_vao # other.state[3]
           /\ m_vbo # 0 => m_vbo # other.state[4]
           /\ m_shader.programId # 0 => m_shader.programId # other.state[2].programId

\* C12: create with a compiled-in identifier returns a new renderer of the
\* variant the identifier stands for, Uninitialized (not initialized, the
\* three handles 0, angle 0); the string and the enum overload select the
\* same variant; and two renderers made by two create calls never hold a
\* GPU handle in common afterwards.
C12_CreateMakesFreshIndependentRenderer ==
    [][ /\ \A type \in RenderTypes :
               (VariantOfType(type) \in build /\ CreateByType(type))
                   => /\ made'.result = VariantOfType(type)
                      /\ Uninitialized(rendererVars', VariantOfType(type))
        /\ \A typeName \in TypeNames :
               (VariantOfName(typeName) \in build /\ CreateByName(typeName))
                   => /\ made'.result = VariantOfName(typeName)
                      /\ Uninitialized(rendererVars', VariantOfName(typeName))
        /\ \A typeName \in TypeNames :
               (VariantOfName(typeName) \in build /\ CreateSecond(typeName))
                   => /\ made'.result = VariantOfName(typeName)
                      /\ Uninitialized(other'.state, VariantOfName(typeName))
        /\ RenderFactory_createByName("triangle") = RenderFactory_create("Triangle")
        /\ RenderFactory_createByName("cube") = RenderFactory_create("Cube")
        /\ NoSharedHandle' ]_vars

\* C11: create with an identifier that is not compiled in (a name in another
\* case, the empty name, the name or enum value of a renderer compiled out,
\* a value outside the enum) returns nullptr, by either overload: no
\* renderer is made, and the host that assigns the result to m_renderer holds
\* none afterwards.
C11_CreateUnknownReturnsNull ==
    [][ /\ \A type \in RenderTypes :
               VariantOfType(type) \notin build
                   => /\ RenderFactory_create(type) = "null"
                      /\ CreateByType(type)
                             => /\ made'.result = "null"
                                /\ rendererVars' = NoRendererHeld /\ other' = other
        /\ \A typeName \in TypeNames :
               VariantOfName(typeName) \notin build
                   => /\ RenderFactory_createByName(typeName) = "null"
                      /\ CreateByName(typeName)
                             => /\ made'.result = "null"
                                /\ rendererVars' = NoRendererHeld /\ other' = other ]_vars

\* C11 reached: the name "Triangle" was refused in a build that has the
\* triangle renderer
C11_Witness ==
    /\ "TriangleRender" \in build
    /\ made = [ overload |-> "string", arg |-> "Triangle", result |-> "null" ]
    /\ variant = NullRenderer /\ ~other.present

\* The draw calls of the last operation
DrawCalls == CallsTo({"glDrawArrays"})

\* C15: a render that draws passes to the draw call the vertex count of the
\* config of the last initialize that returned true; the renderer made by
\* create("triangle") initialized with the default TriangleConfig returns
\* true and draws 3 vertices, the one made by create("cube") with the
\* default CubeConfig returns true and draws 6.
C15_DrawCountIsConfigVertexCount ==
    [][ /\ (Render(DefaultContext) /\ m_initialized)
               => gl'.calls # <<>>
                  /\ SelectSeq(gl'.calls, LAMBDA c : c[1] = "glDrawArrays")
                         = << <<"glDrawArrays", "GL_TRIANGLES", 0, initConfig.nverts>> >>
        /\ (made.result = "TriangleRender" /\ InitializeDefault(TriangleConfig_default))
               => /\ last'.ret = <<TRUE>> /\ m_initialized'
                  /\ m_vertexCount' = 3 /\ initConfig'.nverts = 3
        /\ (made.result = "CubeRender" /\ InitializeDefault(CubeConfig_default))
               => /\ last'.ret = <<TRUE>> /\ m_initialized'
                  /\ m_vertexCount' = 6 /\ initConfig'.nverts = 6 ]_vars

\* C15 reached: the renderer made by create("cube") and initialized with
\* the default CubeConfig drew its 6 vertices
C15_Witness ==
    /\ made = [ overload |-> "string", arg |-> "cube", result |-> "CubeRender" ]
    /\ variant = "CubeRender" /\ m_initialized
    /\ initConfig = CubeConfig_default
    /\ last.op = "render" /\ last.ret = <<TRUE>>
    /\ DrawCalls = << <<"glDrawArrays", "GL_TRIANGLES", 0, 6>> >>

(***************************************************************************)
(* C21..C30                                                                *)
(***************************************************************************)
\* The variant the active renderer tag stands for, and the config its own
\* config class makes
ActiveConfig == IF ActiveRenderer = "CubeRendererTag" THEN CubeConfig_new ELSE TriangleConfig_new

\* The config has both shader texts, vertices and speed 1
Populated(c) ==
    /\ Config_vertexShaderSource(c) # "" /\ Config_fragmentShaderSource(c) # ""
    /\ Config_vertices(c) # <<>>
    /\ Config_rotationSpeed(c) = 1

\* C21: TriangleConfig(), CubeConfig() and RenderConfig::createDefaultConfig()
\* each make a config with both shader texts, vertices and speed 1;
\* the clear colour is dark blue for the triangle and dark gray for the
\* cube; and createDefaultConfig() agrees with the config class of the
\* active variant on the vertex count and the clear colour.
C21_DefaultConfigsPopulatedAndAgree ==
    /\ Populated(TriangleConfig_new) /\ Config_clearColor(TriangleConfig_new) = DarkBlue
    /\ Populated(CubeConfig_new) /\ Config_clearColor(CubeConfig_new) = DarkGray
    /\ Populated(RenderConfig_createDefaultConfig)
    /\ Config_vertexShaderSource(RenderConfig_createDefaultConfig)
           = Config_vertexShaderSource(ActiveConfig)
    /\ Config_fragmentShaderSource(RenderConfig_createDefaultConfig)
           = Config_fragmentShaderSource(ActiveConfig)
    /\ Config_clearColor(RenderConfig_createDefaultConfig) = Config_clearColor(ActiveConfig)
    /\ Len(Config_vertices(RenderConfig_createDefaultConfig))
           = Len(Config_vertices(ActiveConfig))

\* The programs held by the Shader objects alive in state objs
HeldPrograms(objs) ==
    { objs[slot].obj.programId : slot \in { x \in ShaderSlots : objs[x].alive } } \ { 0 }

\* Every glDeleteProgram of calls deletes a program that is live when it is
\* made, live being the programs live before the calls
RECURSIVE DeletesLive(_, _)
DeletesLive(live, calls) ==
    IF calls = <<>> THEN TRUE
    ELSE LET c == Head(calls)
         IN  IF c[1] = "glDeleteProgram"
             THEN c[2] \in live /\ DeletesLive(live \ { c[2] }, Tail(calls))
             ELSE IF c[1] = "glCreateProgram"
             THEN DeletesLive(live \cup { c[2] }, Tail(calls))
             ELSE DeletesLive(live, Tail(calls))

\* C22: release() deletes the program if one is held (with one
\* glDeleteProgram), sets the id to 0 and empties the cache, and does
\* nothing to the driver when no program is held; over loadFromSource,
\* loadFromFile, release, move construction, move assignment and
\* destruction no glDeleteProgram names a program already deleted, no two
\* live Shader objects hold the same program, and the live programs are
\* exactly the ones held by live Shader objects.
C22_ReleaseDeletesOnceAndOwnershipIsUnique ==
    [][ /\ \A slot \in ShaderSlots :
               (last'.op = "release" /\ ReleaseShader(slot)) =>
                   LET held == shaderObjs[slot].obj.programId
                   IN  /\ shaderObjs'[slot].obj.programId = 0
                       /\ shaderObjs'[slot].obj.cache = {}
                       /\ held # 0 => /\ held \notin gl'.programs
                                      /\ gl'.calls = << <<"glDeleteProgram", held>> >>
                       /\ held = 0 => gl'.calls = <<>> /\ gl'.programs = gl.programs
        /\ DeletesLive(gl.programs, gl'.calls)
        /\ \A x, y \in ShaderSlots :
               (x # y /\ shaderObjs'[x].alive /\ shaderObjs'[y].alive
                      /\ shaderObjs'[x].obj.programId # 0)
                   => shaderObjs'[x].obj.programId # shaderObjs'[y].obj.programId
        /\ gl'.programs = HeldPrograms(shaderObjs') ]_vars

\* A move assignment has released the target's own program and handed over
\* the source's, which the source no longer holds
C22_Witness ==
    /\ last.op = "operator=(Shader&&)"
    /\ Len(CallsTo({"glDeleteProgram"})) = 1
    /\ shaderObjs["a"].alive /\ shaderObjs["b"].alive
    /\ shaderObjs["a"].obj.programId # 0
    /\ shaderObjs["b"].obj.programId = 0
    /\ gl.programs = { shaderObjs["a"].obj.programId }

\* The location the cache of sh holds for name
CachedLocation(sh, name) == (CHOOSE e \in sh.cache : e.name = name).location

IsCached(sh, name) == \E e \in sh.cache : e.name = name

\* The glUniform* function each setter goes through to
GlUniformOf(setter) ==
    CASE setter \in { "setBool", "setInt" } -> "glUniform1i"
      [] setter = "setFloat"                -> "glUniform1f"
      [] setter = "setVec2"                 -> "glUniform2fv"
      [] setter = "setVec2(x,y)"            -> "glUniform2f"
      [] setter = "setVec3"                 -> "glUniform3fv"
      [] setter = "setVec3(x,y,z)"          -> "glUniform3f"
      [] setter = "setVec4"                 -> "glUniform4fv"
      [] setter = "setVec4(x,y,z,w)"        -> "glUniform4f"
      [] setter = "setMat2"                 -> "glUniformMatrix2fv"
      [] setter = "setMat3"                 -> "glUniformMatrix3fv"
      [] setter = "setMat4"                 -> "glUniformMatrix4fv"

\* C23: a uniform setter (any of the twelve) asks the driver for the
\* location of a name only when the Shader has not cached it, with one
\* glGetUniformLocation on the held program, and caches the answer, -1 for a
\* name the program does not have; with the name cached it makes no query
\* and passes the cached location on; either way the setter goes through to
\* its glUniform* function.  After loadFromSource and after release the
\* cache is empty, and at all times a cached location is the one of the
\* program held now.
C23_UniformLocationsMemoizedPerProgram ==
    [][ /\ \A slot \in ShaderSlots, name \in UniformNames :
               (last'.op \in Setters /\ SetUniform(slot, last'.op, name)) =>
                   LET sh == shaderObjs[slot].obj
                       location == GlGetUniformLocation(gl, sh.programId, name)
                       n == Len(gl'.calls)
                   IN  /\ IF IsCached(sh, name)
                          THEN /\ shaderObjs'[slot].obj.cache = sh.cache
                               /\ n = 1
                               /\ gl'.calls[n][2] = CachedLocation(sh, name)
                          ELSE /\ shaderObjs'[slot].obj.cache =
                                      sh.cache \cup { [ name |-> name, location |-> location ] }
                               /\ n = 2
                               /\ gl'.calls[1] = <<"glGetUniformLocation", sh.programId, name>>
                               /\ gl'.calls[n][2] = location
                       /\ gl'.calls[n][1] = GlUniformOf(last'.op)
                       /\ last'.op = "setMat4" => gl'.calls[n][3] = Identity
        /\ \A slot \in ShaderSlots :
               (/\ last'.op \in { "release", "loadFromSource" }
                /\ \/ ReleaseShader(slot)
                   \/ \E pair \in LoadedPairs : LoadFromSource(slot, pair.vs, pair.fs))
                   => shaderObjs'[slot].obj.cache = {}
        /\ \A slot \in ShaderSlots :
               shaderObjs'[slot].alive =>
                   \A e \in shaderObjs'[slot].obj.cache :
                       /\ e.location = GlGetUniformLocation(gl', shaderObjs'[slot].obj.programId,
                                                            e.name)
                       /\ \A f \in shaderObjs'[slot].obj.cache : f.name = e.name => f = e
      ]_vars

\* A setter for a name the program does not have has reused the cached -1
C23_Witness ==
    /\ last.op = "setInt"
    /\ gl.calls = << <<"glUniform1i", -1, 1>> >>
    /\ shaderObjs["a"].alive /\ ~shaderObjs["b"].alive
    /\ shaderObjs["a"].obj.programId \in gl.programs
    /\ [ name |-> "tint", location |-> -1 ] \in shaderObjs["a"].obj.cache
    /\ [ name |-> "mvp", location |-> 0 ] \in shaderObjs["a"].obj.cache

\* C24: loadFromFile with a vertex or fragment file that cannot be opened or
\* is empty returns false without any GL call (no shader object is created,
\* nothing is compiled), leaves the held program and the uniform cache as
\* they were, and sets the error text to the failure to read the vertex
\* file if that one failed, else to the failure to read the fragment file.
C24_UnreadableFileFailsBeforeCompilation ==
    [][ \A slot \in ShaderSlots, vertexPath \in VertexPaths, fragmentPath \in FragmentPaths :
            (/\ last'.op = "loadFromFile"
             /\ Shader_readFile(vertexPath) = "" \/ Shader_readFile(fragmentPath) = ""
             /\ LoadFromFile(slot, vertexPath, fragmentPath))
                => /\ last'.ret = << FALSE >>
                   /\ gl'.calls = <<>>
                   /\ gl'.shaders = gl.shaders /\ gl'.programs = gl.programs
                   /\ shaderObjs'[slot].obj.programId = shaderObjs[slot].obj.programId
                   /\ shaderObjs'[slot].obj.cache = shaderObjs[slot].obj.cache
                   /\ shaderObjs'[slot].obj.lastError =
                          IF Shader_readFile(vertexPath) = ""
                          THEN << "Failed to read vertex shader file: ", vertexPath >>
                          ELSE << "Failed to read fragment shader file: ", fragmentPath >>
      ]_vars

\* A load with a missing vertex file has failed on a Shader that holds a
\* program and a cached location, and still holds them
C24_Witness ==
    /\ last.op = "loadFromFile" /\ last.ret = << FALSE >>
    /\ gl.calls = <<>>
    /\ shaderObjs["a"].alive /\ ~shaderObjs["b"].alive
    /\ shaderObjs["a"].obj.lastError = << "Failed to read vertex shader file: ", "missing.glsl" >>
    /\ shaderObjs["a"].obj.programId \in gl.programs
    /\ [ name |-> "mvp", location |-> 0 ] \in shaderObjs["a"].obj.cache

\* The GL calls by which initializeGeometry creates and fills the buffers
UploadCalls == { "glGenVertexArrays", "glGenBuffers", "glBufferData" }

\* The GL calls of operation in state g whose function is one of names
CallsIn(g, names) == SelectSeq(g.calls, LAMBDA c : c[1] \in names)

\* C25: initialize checks the config type, then compiles and links the
\* shaders, then uploads the vertices, and stops at the first check that
\* fails with one error report: InitializationFailed for a config of the
\* wrong type whatever its shaders (nothing is compiled),
\* ShaderCompilationFailed for a config of the right type whose shaders
\* fail whatever its vertices (nothing is uploaded), BufferCreationFailed
\* only when the shaders are good and the vertices empty.  A failed
\* initialize leaves clear colour, speed and m_initialized as they were; a
\* successful one reports nothing, caches the config's clear colour and
\* speed and sets m_initialized.
C25_InitializeChecksInOrderAndReportsOnce ==
    [][ (last'.op = "initialize" /\ cfg'.alive) =>
            LET c == cfg'.value
            IN  /\ c.type # ExpectedType
                       => /\ ReportedOnly(last', "InitializationFailed")
                          /\ gl'.calls = <<>>
                /\ (c.type = ExpectedType /\ ~ShadersGood(c))
                       => /\ ReportedOnly(last', "ShaderCompilationFailed")
                          /\ CallsIn(gl', UploadCalls) = <<>>
                /\ (c.type = ExpectedType /\ ShadersGood(c) /\ c.nverts = 0)
                       => /\ ReportedOnly(last', "BufferCreationFailed")
                          /\ CallsIn(gl', {"glBufferData"}) = <<>>
                /\ (c.type = ExpectedType /\ ShadersGood(c) /\ c.nverts # 0)
                       => last'.ret = << TRUE >>
                /\ last'.ret = << FALSE >>
                       => /\ Len(last'.reported) = 1
                          /\ m_clearColor' = m_clearColor
                          /\ m_rotationSpeed' = m_rotationSpeed
                          /\ m_initialized' = m_initialized
                /\ last'.ret = << TRUE >>
                       => /\ last'.reported = <<>>
                          /\ m_clearColor' = c.clearColor
                          /\ m_rotationSpeed' = c.rotationSpeed
                          /\ m_initialized'
      ]_vars

\* initialize with a config of the right type, failing shaders and no
\* vertices has reported the shader failure, on a renderer never initialized
C25_Witness ==
    /\ last.op = "initialize"
    /\ cfg.alive /\ cfg.value.type = ExpectedType
    /\ ~ShadersGood(cfg.value) /\ cfg.value.nverts = 0
    /\ ReportedOnly(last, "ShaderCompilationFailed")
    /\ ~m_initialized /\ m_vao = 0

\* C26: no GL object of the renderer outlives a cleanup: when cleanup
\* returns, no vertex array, buffer, program or shader object is live; and
\* a successful initialize on a Ready renderer either keeps the vertex
\* array and buffer it held or deletes them.
C26_NoResourceOrphaned ==
    [][ /\ last'.op = "cleanup" => StoreEmpty'
        /\ (last'.op = "initialize" /\ last'.ret = << TRUE >> /\ m_initialized /\ HandlesValid)
               => /\ m_vao' = m_vao \/ m_vao \notin gl'.vaos
                  /\ m_vbo' = m_vbo \/ m_vbo \notin gl'.buffers ]_vars

\* C27: a successful initialize with config c directly after a cleanup
\* leaves the renderer as a newly constructed renderer initialized with c
\* would be in what its frames show: the angle at 0, the vertex count, the
\* clear colour and the speed those of c.
C27_CleanupThenInitializeIsFresh ==
    [][ (last.op = "cleanup" /\ last'.op = "initialize" /\ last'.ret = << TRUE >>)
            => \A c \in Configs :
                   Initialize(c) => /\ m_currentAngle' = 0
                                    /\ m_vertexCount' = c.nverts
                                    /\ m_clearColor' = c.clearColor
                                    /\ m_rotationSpeed' = c.rotationSpeed ]_vars

\* The session the globals describe is up: the renderer is there and
\* Ready, and the display, surface, context and window are live
SessionUp(j, e) ==
    /\ j.g_renderer.present /\ j.g_renderer.initialized
    /\ j.g_display # 0 /\ e.initialized
    /\ j.g_surface \in e.surfaces
    /\ j.g_context \in e.contexts
    /\ j.g_window # 0 /\ e.windowRefs > 0

\* C28: in the JNI session, after every handler, g_initialized implies
\* that g_renderer is non-null and Ready and that g_display, g_surface,
\* g_context and g_window are valid; and a nativeRender that calls render
\* or eglSwapBuffers does so on a session that is up.
C28_InitializedImpliesSessionUp ==
    [][ /\ jni'.g_initialized => SessionUp(jni', egl')
        /\ (jni'.op = "nativeRender" /\ jni'.calls # <<>>) => SessionUp(jni, egl) ]_vars

\* C29: a nativeInit that returns JNI_FALSE holds nothing afterwards: no
\* reference on the native window and g_window null, the display not
\* initialized, no surface and no context live, and g_display, g_surface
\* and g_context at their EGL_NO_ values.
C29_FailedInitHoldsNothing ==
    [][ (jni'.op = "nativeInit" /\ jni'.ret = "JNI_FALSE")
            => /\ jni'.g_window = 0 /\ egl'.windowRefs = 0
               /\ ~egl'.initialized /\ egl'.surfaces = {} /\ egl'.contexts = {}
               /\ jni'.g_display = 0 /\ jni'.g_surface = 0 /\ jni'.g_context = 0 ]_vars

\* C30: the process is never ended by the destructor of a joinable
\* std::thread: on every way out of main t1 has been joined when it is
\* destroyed, and the threads of a ThreadTestClass have been joined when
\* its destructor returns.
C30_NoJoinableThreadDestroyed ==
    /\ proc.exit # "std::terminate"
    /\ proc.exit \in { "0", "-1" } => proc.t1.left = 0
    /\ proc.threadTest = "destroyed"
           => \A i \in DOMAIN proc.threads : proc.threads[i].left = 0

====
